---- MODULE Spec2Model ----
(***************************************************************************)
(* file_my_photos: the scan / duplicate / organize / revert core, as a     *)
(* state machine over a filesystem, the files catalog and the operations   *)
(* ledger.                                                                 *)
(*                                                                         *)
(* A path is a record [dir, name]: dir is the sequence of directory        *)
(* components, name the file name as a sequence of tokens: the stem        *)
(* followed by the " (x)" suffixes handleCollision has inserted before the *)
(* extension (<<"a","1">> is "a (1).jpg").  Directory components and file  *)
(* names are disjoint, so a path names a file or nothing.                  *)
(*                                                                         *)
(* scanDirectory and organizeFiles are a Start action, one step per file   *)
(* and a Finish action; revertOperation and revertBatch are one step each. *)
(* The status object a finished handler leaves behind (currentScanStatus,  *)
(* currentOrganizeStatus, revertBatch's results) is kept until the next    *)
(* call starts; `last` names the call that finished last, and a status     *)
(* object's `after` the call that had finished last when its call began.   *)
(*                                                                         *)
(* The specifications share the actions:                                   *)
(*   SpecScan  scans of a filesystem other programs change, from an empty  *)
(*             catalog;                                                    *)
(*   Spec      markDuplicates, organize and revert calls, one at a time,   *)
(*             from the catalogs the scans leave, nothing else touching    *)
(*             the disk;                                                   *)
(*   SpecX     the same calls on a filesystem other programs change;       *)
(*   SpecI     organize and revert requests served concurrently, a         *)
(*             revertOperation call yielding between its checks and its    *)
(*             rename;                                                     *)
(*   SpecR     the request handlers of the routes and the scanDirectory    *)
(*             and organizeFiles calls they start, interleaved at the      *)
(*             calls' await points;                                        *)
(*   SpecResolve  resolveDate called on every metadata object, as the      *)
(*             clock advances;                                             *)
(*   SpecProcess  processFile on a file whose embedded and filesystem      *)
(*             dates are any the disk can hold;                            *)
(*   SpecRoots scans of any root, a missing one included, while other      *)
(*             programs remove files and directories under the walk;       *)
(*   SpecPreview  previewOrganization calls and organize runs;             *)
(*   SpecCan   canRevert and previewBatchRevert calls between organize     *)
(*             runs, reverts and external changes;                         *)
(*   SpecSteps organize runs with organizeFile split at its awaits (the    *)
(*             checks, the rename, the record), fs.mkdir and fs.rename     *)
(*             failing, while other programs delete files;                 *)
(*   SpecScanIo  scans in which reading a file fails, while other programs *)
(*             delete files under the walk.                                *)
(***************************************************************************)
EXTENDS Integers, Sequences, FiniteSets, TLC

\* ------------------------------------------------------------------ bounds
MaxFiles == 2       \* files on disk in the initial filesystem
MaxOps == 4         \* ledger entries
MaxBatches == 2     \* organizeFiles invocations
MaxClock == 1       \* seconds the wall clock can advance
MaxExt == 1         \* external filesystem changes
MaxFaults == 0      \* injected I/O failures (permission denied, read error)
MaxPending == 2     \* revertOperation calls in flight at once
MaxWalks == 2       \* scanDirectory calls running at once
MaxRunning == 2     \* organizeFiles calls running at once
MaxRequests == 4    \* requests served
MaxErrs == 2        \* error rows logged before a further scan starts
MaxIoErrors == 1    \* I/O failures of the calls that run in steps

\* organizer.js:199 tries numbered suffixes while counter <= 100; the model
\* keeps the loop and scales the limit, so that exhausting the numbered names
\* takes 2 occupied names instead of 100.
CollisionLimit == 2

\* ------------------------------------------------------------------ values
Contents == {"c1", "c2", "c3"}

NoHash == <<>>
NoPath == [dir |-> <<>>, name |-> <<>>]
NoId == 0

\* hasher.js calculateHash: the SHA-256 hex digest of the content, here
\* <<first 8 hex characters, the rest>>.  Distinct contents have distinct
\* digests; c1 and c3 agree on the first 8 characters.
calculateHash(c) ==
  CASE c = "c1" -> <<"p1", "x">>
    [] c = "c2" -> <<"p2", "x">>
    [] c = "c3" -> <<"p1", "y">>

\* hash.substring(0, 8)
HashPrefix(h) == h[1]

Path(d, n) == [dir |-> d, name |-> n]

SrcDir == <<"src">>
Base == <<"dest">>
Date1 == <<"2023", "07", "15">>

\* dateResolver.js generateDestinationPath: base/year/month/day/filename
generateDestinationPath(destinationBase, date, filename) ==
  Path(destinationBase \o date, filename)

\* `${base} (${x})${ext}` in the directory of destPath
Suffixed(destPath, x) == Path(destPath.dir, Append(destPath.name, x))

\* fs.access(path) succeeds
fileExists(fsys, p) == p \in DOMAIN fsys

\* organizer.js handleCollision: the while loop, one iteration per call
RECURSIVE CollisionLoop(_, _, _, _, _)
CollisionLoop(destPath, finalPath, counter, hash, fsys) ==
  IF ~fileExists(fsys, finalPath) THEN finalPath
  ELSE IF counter + 1 > CollisionLimit /\ hash # NoHash
       THEN Suffixed(destPath, HashPrefix(hash))
       ELSE CollisionLoop(destPath, Suffixed(destPath, ToString(counter)),
                          counter + 1, hash, fsys)

\* no collision handling: the proposed path as it is
handleCollisionNone(destPath, hash, fsys) == destPath

handleCollision(destPath, hash, fsys) ==
  CollisionLoop(destPath, destPath, 1, hash, fsys)

\* ------------------------------------------------------------- directories
Prefixes(d) == {SubSeq(d, 1, k) : k \in 0..Len(d)}

\* fs.mkdir(dir, {recursive: true})
mkdirp(ds, d) == ds \cup Prefixes(d)

Parent(d) == SubSeq(d, 1, Len(d) - 1)

FilesIn(fsys, d) == {p \in DOMAIN fsys : p.dir = d}
SubDirs(ds, d) == {x \in ds : Len(x) = Len(d) + 1 /\ Parent(x) = d}

\* revert.js cleanupEmptyDirectories: remove the directory while it is empty,
\* then its parent; any error (the root cannot be removed) ends the walk.
RECURSIVE cleanupEmptyDirectories(_, _, _)
cleanupEmptyDirectories(ds, fsys, d) ==
  IF d \notin ds \/ d = <<>> THEN ds
  ELSE IF FilesIn(fsys, d) = {} /\ SubDirs(ds, d) = {}
       THEN cleanupEmptyDirectories(ds \ {d}, fsys, Parent(d))
       ELSE ds

\* ----------------------------------------------------------- readdir order
TokenOrder == <<".h", "1", "07", "15", "2", "2023", "3", "a", "b", "dest", "p1", "p2", "src">>
TokRank(t) == CHOOSE i \in 1..Len(TokenOrder) : TokenOrder[i] = t

RECURSIVE SeqLess(_, _)
SeqLess(s, t) ==
  IF s = <<>> THEN t # <<>>
  ELSE IF t = <<>> THEN FALSE
  ELSE IF Head(s) = Head(t) THEN SeqLess(Tail(s), Tail(t))
  ELSE TokRank(Head(s)) < TokRank(Head(t))

\* the values of the <<key, value>> pairs of S, ascending by key
RECURSIVE SortPairs(_)
SortPairs(S) ==
  IF S = {} THEN <<>>
  ELSE LET m == CHOOSE x \in S : \A y \in S \ {x} : SeqLess(x[1], y[1])
       IN <<m[2]>> \o SortPairs(S \ {m})

\* readdir returns the entries in the order the directory keeps them, which
\* no caller controls: any order of the files.  A directory of the model has
\* its subdirectories by name.
Orders(S) == {q \in [1..Cardinality(S) -> S] : \A i, j \in 1..Cardinality(S) : q[i] = q[j] => i = j}
SortDirs(S) == SortPairs({<<<<d[Len(d)]>>, d>> : d \in S})

\* metadata.js shouldSkipFile / shouldSkipDirectory: hidden names
shouldSkipFile(name) == name[1] = ".h"
shouldSkipDirectory(d) == d[Len(d)] = ".h"

\* scanner.js countFiles: eligible files under dirPath; an unreadable
\* directory counts 0
RECURSIVE countFiles(_, _, _)
\* a count of every file on the disk, whatever the directory
countFilesAll(fsys, ds, d) == Cardinality(DOMAIN fsys)

countFiles(fsys, ds, d) ==
  IF d \notin ds THEN 0
  ELSE LET subs == SortDirs({x \in SubDirs(ds, d) : ~shouldSkipDirectory(x)})
           RECURSIVE Sum(_)
           Sum(q) == IF q = <<>> THEN 0
                     ELSE countFiles(fsys, ds, Head(q)) + Sum(Tail(q))
       IN Cardinality({p \in FilesIn(fsys, d) : ~shouldSkipFile(p.name)}) + Sum(subs)

\* ---------------------------------------------------------------- state
VARIABLES
  fs,        \* the files on disk: path -> content
  dirs,      \* the directories on disk
  files,     \* the files table, by id
  ops,       \* the operations table (ledger), by id
  errs,      \* the errors table
  now,       \* CURRENT_TIMESTAMP, in seconds
  nextBatch, \* stands for uuidv4(): the next fresh batch id
  scan,      \* currentScanStatus and the walk of the running scanDirectory
  org,       \* currentOrganizeStatus and the rows of the running organizeFiles
  rev,       \* the results of the last revertBatch
  rvp,       \* revertOperation calls between their checks and their rename
  last,      \* the last finished call (or external change), with its result
  ext,       \* external filesystem changes so far
  faults,    \* I/O failures still to be injected
  activeScan,     \* routes/files.js activeScan: its status, "none" for null
  activeOrganize, \* routes/organize.js activeOrganize: its status
  walks,     \* the locals of the scanDirectory calls the routes have started
  batches,   \* the locals of the organizeFiles calls the routes have started
  served     \* the requests served so far

\* the state of the request layer
requests == <<activeScan, activeOrganize, walks, batches, served>>

vars == <<fs, dirs, files, ops, errs, now, nextBatch, scan, org, rev, rvp,
          last, ext, faults, activeScan, activeOrganize, walks, batches, served>>

NoCall ==
  [op |-> "none", batch |-> 0, dry |-> FALSE, ids |-> {}, root |-> <<>>,
   entry |-> 0, res |-> "", n |-> 0]

IdleScan ==
  [status |-> "idle", root |-> <<>>, totalFiles |-> 0, processedFiles |-> 0,
   newFiles |-> 0, skippedFiles |-> 0, errorFiles |-> 0,
   todoFiles |-> <<>>, todoDirs |-> <<>>, after |-> NoCall]

IdleOrg ==
  [status |-> "idle", batchId |-> 0, dryRun |-> FALSE, ids |-> {},
   totalFiles |-> 0, processedFiles |-> 0, movedFiles |-> 0, skippedFiles |-> 0,
   duplicateFiles |-> 0, errorFiles |-> 0, queue |-> <<>>, after |-> NoCall]

IdleRev ==
  [status |-> "idle", batchId |-> 0, totalOperations |-> 0, reverted |-> 0,
   failed |-> 0, skipped |-> 0, errors |-> <<>>, after |-> NoCall]

DateDir == Base \o Date1

InitPaths ==
  {Path(SrcDir, <<"a">>), Path(SrcDir, <<"b">>),
   Path(DateDir, <<"a">>), Path(DateDir, <<"a", "1">>)}

\* what the files of the small layouts hold at first
InitContents == {"c1", "c2"}

\* the initial filesystems: up to MaxFiles files at InitPaths
Layouts ==
  UNION {[S -> InitContents] : S \in {T \in SUBSET InitPaths : Cardinality(T) \in 1..MaxFiles}}

\* the initial filesystems in which "a" and its numbered name are both taken
\* at the destination, so that a third "a" exhausts the numbered names
Crowded ==
  {L \in [{Path(SrcDir, <<"a">>), Path(DateDir, <<"a">>), Path(DateDir, <<"a", "1">>)}
            -> Contents] : L[Path(DateDir, <<"a", "1">>)] = "c1"}

\* a lookup that finds no row
getFileByPathNone(tbl, p) == {}

\* fileQueries.getFileByPath
getFileByPath(tbl, p) == {i \in 1..Len(tbl) : tbl[i].original_path = p}

\* the row scanner.js processFile inserts
FileRow(id, p, content, t) ==
  [id |-> id, original_path |-> p, current_path |-> p, filename |-> p.name,
   hash_sha256 |-> calculateHash(content), resolved_date |-> Date1,
   status |-> "pending", duplicate_of |-> NoId, created_timestamp |-> t]

\* scanner.js processDirectory: the orders in which a walk can reach the
\* files under d: the directory's own files, then each subdirectory in turn
RECURSIVE Walks(_, _, _)
Walks(fsys, ds, d) ==
  IF d \notin ds THEN {<<>>}
  ELSE LET subs == SortDirs({x \in SubDirs(ds, d) : ~shouldSkipDirectory(x)})
           RECURSIVE Each(_)
           Each(q) == IF q = <<>> THEN {<<>>}
                      ELSE {x \o y : x \in Walks(fsys, ds, Head(q)), y \in Each(Tail(q))}
       IN {x \o y : x \in Orders({p \in FilesIn(fsys, d) : ~shouldSkipFile(p.name)}),
                    y \in Each(subs)}

\* the files table after scanDirectory has walked the given files once each
RECURSIVE Inserted(_, _, _)
Inserted(tbl, fsys, q) ==
  IF q = <<>> THEN tbl
  ELSE Inserted(IF getFileByPath(tbl, Head(q)) # {} THEN tbl
                ELSE Append(tbl, FileRow(Len(tbl) + 1, Head(q), fsys[Head(q)], 0)),
                fsys, Tail(q))

DirsOf(fsys) == UNION {Prefixes(p.dir) : p \in DOMAIN fsys} \cup {<<>>, SrcDir, Base}

\* the catalogs scans of the source tree, of the destination tree or of both
\* (in either order) leave
Catalogs(fsys) ==
  LET S == Walks(fsys, DirsOf(fsys), SrcDir)
      B == Walks(fsys, DirsOf(fsys), Base)
  IN {Inserted(<<>>, fsys, q) :
        q \in S \cup B \cup {x \o y : x \in S, y \in B} \cup {y \o x : x \in S, y \in B}}

\* the state after construction, with n I/O failures still to come
InitFaulty(L, scanned, n) ==
  /\ fs \in L
  /\ dirs = DirsOf(fs)
  /\ files \in (IF scanned THEN Catalogs(fs) \ {<<>>} ELSE {<<>>})
  /\ ops = <<>>
  /\ errs = <<>>
  /\ now = 0
  /\ nextBatch = 1
  /\ scan = IdleScan
  /\ org = IdleOrg
  /\ rev = IdleRev
  /\ rvp = <<>>
  /\ last = NoCall
  /\ ext = 0
  /\ faults = n
  /\ activeScan = "none"
  /\ activeOrganize = "none"
  /\ walks = <<>>
  /\ batches = <<>>
  /\ served = 0

\* the same, with the failures of the calls that run one file per step
InitWith(L, scanned) == InitFaulty(L, scanned, MaxFaults)

\* after the scans
Init == InitWith(Layouts \cup Crowded, TRUE)

\* the initial filesystems in which every path has one fixed content
Fixed ==
  {L \in Layouts : \A p \in DOMAIN L :
     L[p] = IF p = Path(DateDir, <<"a">>) THEN "c2" ELSE "c1"}

\* after the scans, where the filesystem is shared with other programs
InitX == InitWith(Fixed, TRUE)

\* the initial filesystems of the scans: some with a hidden file
ScanLayouts ==
  UNION {[S -> InitContents] :
           S \in {T \in SUBSET (InitPaths \cup {Path(SrcDir, <<".h">>)}) :
                    Cardinality(T) \in 1..MaxFiles}}

\* before any scan
InitScan == InitWith(ScanLayouts, FALSE)

Idle ==
  /\ scan.status # "in_progress"
  /\ org.status # "in_progress"
  /\ rev.status # "in_progress"
  /\ rvp = <<>>

\* whether the next I/O call fails
FaultChoices == IF faults > 0 THEN {FALSE, TRUE} ELSE {FALSE}

ErrorRow(fileId, path, type) ==
  [file_id |-> fileId, file_path |-> path, error_type |-> type]

\* ----------------------------------------------------------------- scanner
\* scanner.js scanDirectory up to the first readdir of the second pass
ScanStart(root) ==
  /\ scan' = [IdleScan EXCEPT !.status = "in_progress", !.root = root,
                              !.totalFiles = countFiles(fs, dirs, root),
                              !.todoDirs = <<root>>, !.after = last]
  /\ org' = IdleOrg
  /\ rev' = IdleRev
  /\ UNCHANGED <<fs, dirs, files, ops, errs, now, nextBatch, rvp, last, ext, faults>>
  /\ UNCHANGED requests

\* a processDirectory whose readdir failure ends the scan with status error
ScanDirFatal ==
  /\ scan.status = "in_progress"
  /\ scan.todoFiles = <<>>
  /\ scan.todoDirs # <<>>
  /\ LET d == Head(scan.todoDirs)
         rest == Tail(scan.todoDirs)
     IN IF d \notin dirs
        THEN /\ errs' = errs
             /\ scan' = [scan EXCEPT !.status = "error"]
        ELSE /\ errs' = errs
             /\ \E q \in Orders({p \in FilesIn(fs, d) : ~shouldSkipFile(p.name)}) :
                scan' = [scan EXCEPT
                  !.todoFiles = q,
                  !.skippedFiles = @ + Cardinality({p \in FilesIn(fs, d) : shouldSkipFile(p.name)}),
                  !.todoDirs = SortDirs({x \in SubDirs(dirs, d) : ~shouldSkipDirectory(x)}) \o rest]
  /\ UNCHANGED <<fs, dirs, files, ops, now, nextBatch, org, rev, rvp, last, ext, faults>>
  /\ UNCHANGED requests

\* scanner.js processDirectory: readdir, split into files and subdirectories
ScanDir ==
  /\ scan.status = "in_progress"
  /\ scan.todoFiles = <<>>
  /\ scan.todoDirs # <<>>
  /\ LET d == Head(scan.todoDirs)
         rest == Tail(scan.todoDirs)
     IN IF d \notin dirs
        THEN /\ errs' = Append(errs, ErrorRow(NoId, Path(d, <<>>), "directory_access"))
             /\ scan' = [scan EXCEPT !.todoDirs = rest]
        ELSE /\ errs' = errs
             /\ \E q \in Orders({p \in FilesIn(fs, d) : ~shouldSkipFile(p.name)}) :
                scan' = [scan EXCEPT
                  !.todoFiles = q,
                  !.skippedFiles = @ + Cardinality({p \in FilesIn(fs, d) : shouldSkipFile(p.name)}),
                  !.todoDirs = SortDirs({x \in SubDirs(dirs, d) : ~shouldSkipDirectory(x)}) \o rest]
  /\ UNCHANGED <<fs, dirs, files, ops, now, nextBatch, org, rev, rvp, last, ext, faults>>
  /\ UNCHANGED requests

\* a processFile whose failure ends the walk
ScanFileFatal ==
  /\ scan.status = "in_progress"
  /\ scan.todoFiles # <<>>
  /\ \E fault \in FaultChoices :
       LET p == Head(scan.todoFiles)
           s == [scan EXCEPT !.todoFiles = Tail(@), !.processedFiles = @ + 1]
       IN IF getFileByPath(files, p) # {}
          THEN /\ scan' = [s EXCEPT !.skippedFiles = @ + 1]
               /\ UNCHANGED <<files, errs, faults>>
          ELSE IF fault \/ ~fileExists(fs, p)
          THEN /\ scan' = [s EXCEPT !.errorFiles = @ + 1, !.todoFiles = <<>>,
                                    !.todoDirs = <<>>]
               /\ errs' = Append(errs, ErrorRow(NoId, p, "file_processing"))
               /\ faults' = IF fault THEN faults - 1 ELSE faults
               /\ UNCHANGED files
          ELSE /\ files' = Append(files, FileRow(Len(files) + 1, p, fs[p], now))
               /\ scan' = [s EXCEPT !.newFiles = @ + 1]
               /\ UNCHANGED <<errs, faults>>
  /\ UNCHANGED <<fs, dirs, ops, now, nextBatch, org, rev, rvp, last, ext>>
  /\ UNCHANGED requests

\* scanner.js processFile
ScanFile ==
  /\ scan.status = "in_progress"
  /\ scan.todoFiles # <<>>
  /\ \E fault \in FaultChoices :
       LET p == Head(scan.todoFiles)
           s == [scan EXCEPT !.todoFiles = Tail(@), !.processedFiles = @ + 1]
       IN IF getFileByPath(files, p) # {}
          THEN /\ scan' = [s EXCEPT !.skippedFiles = @ + 1]
               /\ UNCHANGED <<files, errs, faults>>
          ELSE IF fault \/ ~fileExists(fs, p)
          THEN /\ scan' = [s EXCEPT !.errorFiles = @ + 1]
               /\ errs' = Append(errs, ErrorRow(NoId, p, "file_processing"))
               /\ faults' = IF fault THEN faults - 1 ELSE faults
               /\ UNCHANGED files
          ELSE /\ files' = Append(files, FileRow(Len(files) + 1, p, fs[p], now))
               /\ scan' = [s EXCEPT !.newFiles = @ + 1]
               /\ UNCHANGED <<errs, faults>>
  /\ UNCHANGED <<fs, dirs, ops, now, nextBatch, org, rev, rvp, last, ext>>
  /\ UNCHANGED requests

\* scanner.js scanDirectory after the walk
ScanFinish ==
  /\ scan.status = "in_progress"
  /\ scan.todoFiles = <<>>
  /\ scan.todoDirs = <<>>
  /\ scan' = [scan EXCEPT !.status = "completed"]
  /\ last' = [NoCall EXCEPT !.op = "scan", !.root = scan.root, !.n = scan.errorFiles]
  /\ UNCHANGED <<fs, dirs, files, ops, errs, now, nextBatch, org, rev, rvp, ext, faults>>
  /\ UNCHANGED requests

\* ------------------------------------------------------ duplicate detector
\* ORDER BY created_timestamp ASC; SQLite's sort keeps rows with equal keys
\* in rowid order
RECURSIVE OrderByCreated(_, _)
OrderByCreated(tbl, S) ==
  IF S = {} THEN <<>>
  ELSE LET m == CHOOSE i \in S : \A j \in S \ {i} :
                  \/ tbl[i].created_timestamp < tbl[j].created_timestamp
                  \/ tbl[i].created_timestamp = tbl[j].created_timestamp /\ i < j
       IN <<m>> \o OrderByCreated(tbl, S \ {m})

\* duplicateDetector.js findAllDuplicateGroups: for every hash that two or
\* more non-error rows carry, the ids of all rows with that hash, oldest first
findAllDuplicateGroups(tbl) ==
  LET hashes == {h \in {tbl[i].hash_sha256 : i \in 1..Len(tbl)} :
                   Cardinality({i \in 1..Len(tbl) :
                       tbl[i].hash_sha256 = h /\ tbl[i].status # "error"}) > 1}
  IN {OrderByCreated(tbl, {i \in 1..Len(tbl) : tbl[i].hash_sha256 = h}) : h \in hashes}

\* fileQueries.updateFile: UPDATE files SET ... WHERE id = row.id
updateFile(tbl, row) ==
  [tbl EXCEPT ![row.id] =
     [@ EXCEPT !.current_path = row.current_path, !.hash_sha256 = row.hash_sha256,
               !.resolved_date = row.resolved_date, !.status = row.status,
               !.duplicate_of = row.duplicate_of]]

\* marks that take in the first member of every group as well
DuplicateMarksSelf(tbl) ==
  {m \in UNION {{<<g[k], g[1]>> : k \in 1..Len(g)} : g \in findAllDuplicateGroups(tbl)} :
     tbl[m[1]].status = "pending"}

\* marks that keep the newest member of every group instead of the oldest
DuplicateMarksNewest(tbl) ==
  {m \in UNION {{<<g[k], g[Len(g)]>> : k \in 1..(Len(g) - 1)} :
                  g \in findAllDuplicateGroups(tbl)} :
     tbl[m[1]].status = "pending"}

\* marks for the later members of every group whatever their status
DuplicateMarksAll(tbl) ==
  UNION {{<<g[k], g[1]>> : k \in 2..Len(g)} : g \in findAllDuplicateGroups(tbl)}

\* the <<duplicate id, original id>> pairs markDuplicates writes: in every
\* group, the members after the first whose status is pending
DuplicateMarks(tbl) ==
  {m \in UNION {{<<g[k], g[1]>> : k \in 2..Len(g)} : g \in findAllDuplicateGroups(tbl)} :
     tbl[m[1]].status = "pending"}

\* duplicateDetector.js markDuplicates
markDuplicates(tbl) ==
  [i \in 1..Len(tbl) |->
     IF \E m \in DuplicateMarks(tbl) : m[1] = i
     THEN [tbl[i] EXCEPT !.status = "duplicate",
                         !.duplicate_of = (CHOOSE m \in DuplicateMarks(tbl) : m[1] = i)[2]]
     ELSE tbl[i]]

MarkDuplicates ==
  /\ files' = markDuplicates(files)
  /\ last' = [NoCall EXCEPT !.op = "markDuplicates", !.n = Cardinality(DuplicateMarks(files))]
  /\ scan' = IdleScan
  /\ org' = IdleOrg
  /\ rev' = IdleRev
  /\ UNCHANGED <<fs, dirs, ops, errs, now, nextBatch, rvp, ext, faults>>
  /\ UNCHANGED requests

\* --------------------------------------------------------------- organizer
\* a row that names the source path as the destination
OpRowSource(tbl, batchId, fileId, type, src, dst, hash, reason) ==
  [id |-> Len(tbl) + 1, batch_id |-> batchId, file_id |-> fileId,
   operation_type |-> type, source_path |-> src, destination_path |-> src,
   hash_used |-> hash, reason |-> reason, status |-> "completed", created_at |-> now]

\* the row logOperation inserts
OpRow(tbl, batchId, fileId, type, src, dst, hash, reason) ==
  [id |-> Len(tbl) + 1, batch_id |-> batchId, file_id |-> fileId,
   operation_type |-> type, source_path |-> src, destination_path |-> dst,
   hash_used |-> hash, reason |-> reason, status |-> "completed", created_at |-> now]

\* a lookup among the rows that are moved and have a duplicate_of
checkForExistingDuplicateMarked(tbl, hash, excludeFileId) ==
  LET M == {i \in 1..Len(tbl) : /\ tbl[i].hash_sha256 = hash
                                 /\ tbl[i].status = "moved"
                                 /\ tbl[i].duplicate_of # NoId}
  IN IF M = {} THEN NoId ELSE CHOOSE i \in M : \A j \in M : i <= j

\* duplicateDetector.js checkForExistingDuplicate: SELECT ... WHERE hash_sha256 = ?
\* AND status = 'moved' AND id != ? LIMIT 1: the first such row by rowid
checkForExistingDuplicate(tbl, hash, excludeFileId) ==
  LET M == {i \in 1..Len(tbl) : /\ tbl[i].hash_sha256 = hash
                                 /\ tbl[i].status = "moved"
                                 /\ (excludeFileId # NoId => i # excludeFileId)}
  IN IF M = {} THEN NoId ELSE CHOOSE i \in M : \A j \in M : i <= j

\* fs.rename(from, to): the file leaves `from` and replaces whatever is at `to`
rename(fsys, from, to) ==
  [p \in (DOMAIN fsys \ {from}) \cup {to} |-> IF p = to THEN fsys[from] ELSE fsys[p]]

\* a selection that does not look at the status
SelectedAny(tbl, ids) ==
  SelectSeq(tbl, LAMBDA r : ids = {} \/ r.id \in ids)

\* organizer.js organizeFiles up to the loop: the rows to organize
Selected(tbl, ids) ==
  SelectSeq(tbl, LAMBDA r : r.status = "pending" /\ (ids = {} \/ r.id \in ids))

OrganizeStart(dryRun, ids) ==
  /\ nextBatch <= MaxBatches
  /\ Len(ops) + Len(Selected(files, ids)) <= MaxOps
  /\ org' = [IdleOrg EXCEPT !.status = "in_progress", !.batchId = nextBatch,
                            !.dryRun = dryRun, !.ids = ids,
                            !.totalFiles = Len(Selected(files, ids)),
                            !.queue = Selected(files, ids), !.after = last]
  /\ nextBatch' = nextBatch + 1
  /\ scan' = IdleScan
  /\ rev' = IdleRev
  /\ UNCHANGED <<fs, dirs, files, ops, errs, now, rvp, last, ext, faults>>
  /\ UNCHANGED requests

\* a dry-run test that never holds
IsDryRunNever(o) == FALSE

\* organizer.js organizeFile: `if (dryRun)`, the test between the destination
\* decision and the move
IsDryRun(o) == o.dryRun

\* organizer.js organizeFile, for the row at the head of the queue
OrganizeFile ==
  /\ org.status = "in_progress"
  /\ org.queue # <<>>
  /\ \E fault \in FaultChoices :
      LET file == Head(org.queue)
          o == [org EXCEPT !.queue = Tail(@), !.processedFiles = @ + 1]
          sourcePath == file.current_path
          dup == checkForExistingDuplicate(files, file.hash_sha256, file.id)
          destPath == handleCollision(
                        generateDestinationPath(Base, file.resolved_date, file.filename),
                        file.hash_sha256, fs)
          Log(type, dst, reason) ==
            Append(ops, OpRow(ops, org.batchId, file.id, type, sourcePath, dst,
                              file.hash_sha256, reason))
      IN IF ~fileExists(fs, sourcePath)
         THEN /\ ops' = Log("skip", NoPath, "Source file not found")
              /\ org' = [o EXCEPT !.skippedFiles = @ + 1]
              /\ UNCHANGED <<fs, dirs, files, errs, faults>>
         ELSE IF dup # NoId
         THEN /\ files' = updateFile(files, [file EXCEPT !.status = "duplicate",
                                                          !.duplicate_of = dup])
              /\ ops' = Log("duplicate", files[dup].current_path, "Duplicate of file")
              /\ org' = [o EXCEPT !.duplicateFiles = @ + 1]
              /\ UNCHANGED <<fs, dirs, errs, faults>>
         ELSE IF IsDryRun(org)
         THEN /\ ops' = Log("move", destPath, "Dry run - would move")
              /\ org' = [o EXCEPT !.movedFiles = @ + 1]
              /\ UNCHANGED <<fs, dirs, files, errs, faults>>
         ELSE IF fault
         THEN /\ errs' = Append(errs, ErrorRow(file.id, sourcePath, "organize_error"))
              /\ ops' = Log("error", NoPath, "error")
              /\ org' = [o EXCEPT !.errorFiles = @ + 1]
              /\ faults' = faults - 1
              /\ UNCHANGED <<fs, dirs, files>>
         ELSE /\ dirs' = mkdirp(dirs, destPath.dir)
              /\ fs' = rename(fs, sourcePath, destPath)
              /\ files' = updateFile(files, [file EXCEPT !.current_path = destPath,
                                                          !.status = "moved",
                                                          !.duplicate_of = NoId])
              /\ ops' = Log("move", destPath, "File moved successfully")
              /\ org' = [o EXCEPT !.movedFiles = @ + 1]
              /\ UNCHANGED <<errs, faults>>
  /\ UNCHANGED <<now, nextBatch, scan, rev, rvp, last, ext>>
  /\ UNCHANGED requests

\* organizer.js organizeFiles after the loop
OrganizeFinish ==
  /\ org.status = "in_progress"
  /\ org.queue = <<>>
  /\ org' = [org EXCEPT !.status = "completed"]
  /\ last' = [NoCall EXCEPT !.op = "organize", !.batch = org.batchId,
                            !.dry = org.dryRun, !.ids = org.ids]
  /\ UNCHANGED <<fs, dirs, files, ops, errs, now, nextBatch, scan, rev, rvp, ext, faults>>
  /\ UNCHANGED requests

\* ------------------------------------------------------------------ revert
NotMove == "Only move operations can be reverted"
AlreadyReverted == "Operation already reverted"
FileNotFound == "Associated file not found"
NoLongerExists == "File no longer exists at destination path"
Modified == "File has been modified since it was moved"
Occupied == "A file already exists at the original location"
NoRevertible == "No revertible operations found in batch"

\* the checks without the comparison of hashes
RevertErrorNoHash(fsys, tbl, operation) ==
  IF operation.operation_type # "move" THEN "Only move operations can be reverted"
  ELSE IF operation.status = "reverted" THEN "Operation already reverted"
  ELSE IF operation.file_id \notin 1..Len(tbl) THEN "Associated file not found"
  ELSE IF ~fileExists(fsys, operation.destination_path)
       THEN "File no longer exists at destination path"
  ELSE IF fileExists(fsys, operation.source_path)
       THEN "A file already exists at the original location"
  ELSE ""

\* revert.js revertOperation up to the rename: the error the call throws for
\* the ledger row `operation`, "" when every check passes
RevertError(fsys, tbl, operation) ==
  IF operation.operation_type # "move" THEN NotMove
  ELSE IF operation.status = "reverted" THEN AlreadyReverted
  ELSE IF operation.file_id \notin 1..Len(tbl) THEN FileNotFound
  ELSE IF ~fileExists(fsys, operation.destination_path) THEN NoLongerExists
  ELSE IF /\ operation.hash_used # NoHash
          /\ calculateHash(fsys[operation.destination_path]) # operation.hash_used
       THEN Modified
  ELSE IF fileExists(fsys, operation.source_path) THEN Occupied
  ELSE ""

\* a revert that turns the row it reverts into the 'revert' row instead of
\* appending one
RevertApplyInPlace(W, operation) ==
  LET currentPath == operation.destination_path
      originalPath == operation.source_path
      file == W.files[operation.file_id]
      moved == rename(W.fs, currentPath, originalPath)
  IN [fs |-> moved,
      dirs |-> cleanupEmptyDirectories(mkdirp(W.dirs, originalPath.dir), moved,
                                       currentPath.dir),
      files |-> updateFile(W.files, [file EXCEPT !.current_path = originalPath,
                                                 !.status = "pending",
                                                 !.duplicate_of = NoId]),
      ops |-> [W.ops EXCEPT ![operation.id].status = "reverted",
                            ![operation.id].operation_type = "revert"]]

\* a revert that files its 'revert' row under the batch of the row it reverts
RevertApplySameBatch(W, operation) ==
  LET currentPath == operation.destination_path
      originalPath == operation.source_path
      file == W.files[operation.file_id]
      moved == rename(W.fs, currentPath, originalPath)
  IN [fs |-> moved,
      dirs |-> cleanupEmptyDirectories(mkdirp(W.dirs, originalPath.dir), moved,
                                       currentPath.dir),
      files |-> updateFile(W.files, [file EXCEPT !.current_path = originalPath,
                                                 !.status = "pending",
                                                 !.duplicate_of = NoId]),
      ops |-> Append([W.ops EXCEPT ![operation.id].status = "reverted"],
                     OpRow(W.ops, operation.batch_id, file.id, "revert", currentPath,
                           originalPath, operation.hash_used, "Reverted operation"))]

\* revert.js revertOperation from the rename on, over the world
\* W = [fs, dirs, files, ops]
RevertApply(W, operation) ==
  LET currentPath == operation.destination_path
      originalPath == operation.source_path
      file == W.files[operation.file_id]
      moved == rename(W.fs, currentPath, originalPath)
  IN [fs |-> moved,
      dirs |-> cleanupEmptyDirectories(mkdirp(W.dirs, originalPath.dir), moved,
                                       currentPath.dir),
      files |-> updateFile(W.files, [file EXCEPT !.current_path = originalPath,
                                                 !.status = "pending",
                                                 !.duplicate_of = NoId]),
      ops |-> Append([W.ops EXCEPT ![operation.id].status = "reverted"],
                     OpRow(W.ops, 0 - operation.id, file.id, "revert", currentPath,
                           originalPath, operation.hash_used, "Reverted operation"))]

World == [fs |-> fs, dirs |-> dirs, files |-> files, ops |-> ops]

\* a call that renames before it looks at the original path
revertOperationEager(W, operation) ==
  LET err == RevertError(W.fs, W.files, operation)
  IN [w |-> IF err \in {"", Occupied} THEN RevertApply(W, operation) ELSE W,
      error |-> err]

\* revert.js revertOperation: the world it leaves and the error it throws
revertOperation(W, operation) ==
  LET err == RevertError(W.fs, W.files, operation)
  IN [w |-> IF err = "" THEN RevertApply(W, operation) ELSE W, error |-> err]

\* the outcome of a revertOperation call as routes/operations.js reports it
RevertResult(id, err) ==
  [NoCall EXCEPT !.op = "revert", !.entry = id, !.res = IF err = "" THEN "ok" ELSE err]

\* a call of revert.js revertOperation with the ledger row of that id, as
\* routes/operations.js POST /:id/revert makes it
RevertOperation(id) ==
  /\ Len(ops) < MaxOps
  /\ LET out == revertOperation(World, ops[id])
     IN /\ fs' = out.w.fs
        /\ dirs' = out.w.dirs
        /\ files' = out.w.files
        /\ ops' = out.w.ops
        /\ last' = RevertResult(id, out.error)
  /\ scan' = IdleScan
  /\ org' = IdleOrg
  /\ rev' = IdleRev
  /\ UNCHANGED <<errs, now, nextBatch, rvp, ext, faults>>
  /\ UNCHANGED requests

\* ORDER BY created_at DESC; SQLite's sort keeps rows with equal keys in
\* rowid order
RECURSIVE OrderByCreatedAtDesc(_, _)
OrderByCreatedAtDesc(tbl, S) ==
  IF S = {} THEN <<>>
  ELSE LET m == CHOOSE i \in S : \A j \in S \ {i} :
                  \/ tbl[i].created_at > tbl[j].created_at
                  \/ tbl[i].created_at = tbl[j].created_at /\ i < j
       IN <<tbl[m]>> \o OrderByCreatedAtDesc(tbl, S \ {m})

\* revert.js revertBatch: the rows its SELECT returns
Revertible(tbl, batchId) ==
  OrderByCreatedAtDesc(tbl, {i \in 1..Len(tbl) : /\ tbl[i].batch_id = batchId
                                                  /\ tbl[i].operation_type = "move"
                                                  /\ tbl[i].status = "completed"})

\* a loop that gives up at the first row that fails
RECURSIVE RevertEachAbort(_, _, _)
RevertEachAbort(W, q, results) ==
  IF q = <<>> THEN [w |-> W, results |-> results]
  ELSE LET operation == Head(q)
           out == revertOperation(W, operation)
       IN IF out.error = ""
          THEN RevertEachAbort(out.w, Tail(q), [results EXCEPT !.reverted = @ + 1])
          ELSE [w |-> W,
                results |-> [results EXCEPT !.failed = @ + 1,
                                            !.errors = Append(@, <<operation.id, out.error>>)]]

\* revert.js revertBatch: the loop over the selected rows
RECURSIVE RevertEach(_, _, _)
RevertEach(W, q, results) ==
  IF q = <<>> THEN [w |-> W, results |-> results]
  ELSE LET operation == Head(q)
           out == revertOperation(W, operation)
       IN IF out.error = ""
          THEN RevertEach(out.w, Tail(q), [results EXCEPT !.reverted = @ + 1])
          ELSE IF out.error = AlreadyReverted
          THEN RevertEach(out.w, Tail(q), [results EXCEPT !.skipped = @ + 1])
          ELSE RevertEach(out.w, Tail(q),
                          [results EXCEPT !.failed = @ + 1,
                                          !.errors = Append(@, <<operation.id, out.error>>)])

\* a call of revert.js revertBatch; it throws when its SELECT returns no row
RevertBatch(batchId) ==
  /\ Len(ops) + Len(Revertible(ops, batchId)) <= MaxOps
  /\ LET operations == Revertible(ops, batchId)
         out == RevertEach(World, operations,
                           [IdleRev EXCEPT !.status = "completed", !.batchId = batchId,
                                           !.totalOperations = Len(operations),
                                           !.after = last])
     IN IF operations = <<>>
        THEN /\ last' = [NoCall EXCEPT !.op = "revertBatch", !.batch = batchId,
                                       !.res = NoRevertible]
             /\ rev' = IdleRev
             /\ UNCHANGED <<fs, dirs, files, ops>>
        ELSE /\ fs' = out.w.fs
             /\ dirs' = out.w.dirs
             /\ files' = out.w.files
             /\ ops' = out.w.ops
             /\ rev' = out.results
             /\ last' = [NoCall EXCEPT !.op = "revertBatch", !.batch = batchId,
                                       !.res = "ok", !.n = out.results.reverted]
  /\ scan' = IdleScan
  /\ org' = IdleOrg
  /\ UNCHANGED <<errs, now, nextBatch, rvp, ext, faults>>
  /\ UNCHANGED requests

\* ------------------------------------------------------- external changes
\* someone else deletes the file at p
ExtDelete(p) ==
  /\ ext < MaxExt
  /\ p \in DOMAIN fs
  /\ fs' = [q \in DOMAIN fs \ {p} |-> fs[q]]
  /\ ext' = ext + 1
  /\ last' = [NoCall EXCEPT !.op = "external"]
  /\ UNCHANGED <<dirs, files, ops, errs, now, nextBatch, scan, org, rev, rvp, faults>>
  /\ UNCHANGED requests

\* someone else rewrites the file at p
ExtModify(p, c) ==
  /\ ext < MaxExt
  /\ p \in DOMAIN fs
  /\ fs[p] # c
  /\ fs' = [fs EXCEPT ![p] = c]
  /\ ext' = ext + 1
  /\ last' = [NoCall EXCEPT !.op = "external"]
  /\ UNCHANGED <<dirs, files, ops, errs, now, nextBatch, scan, org, rev, rvp, faults>>
  /\ UNCHANGED requests

\* ------------------------------------------------- interleaved requests
\* Node runs one handler until it awaits: a revertOperation call whose checks
\* have passed yields at `await fs.access(originalPath)` and renames later,
\* and other requests run in between.  rvp holds the ledger rows of the
\* calls that are between their checks and their rename.
RenameFailed == "ENOENT: no such file or directory, rename"

\* revert.js revertOperation, lines 12-64: the checks
RevertBegin(id) ==
  /\ Len(rvp) < MaxPending
  /\ Len(ops) + Len(org.queue) + Len(rvp) < MaxOps
  /\ LET err == RevertError(fs, files, ops[id])
     IN IF err = ""
        THEN /\ rvp' = Append(rvp, ops[id])
             /\ dirs' = mkdirp(dirs, ops[id].source_path.dir)
             /\ last' = last
        ELSE /\ rvp' = rvp
             /\ dirs' = dirs
             /\ last' = RevertResult(id, err)
  /\ UNCHANGED <<fs, files, ops, errs, now, nextBatch, scan, org, rev, ext, faults>>
  /\ UNCHANGED requests

\* revert.js revertOperation, lines 66-110: the rename and what follows it
RevertCommit(k) ==
  /\ k \in 1..Len(rvp)
  /\ LET operation == rvp[k]
         W == IF fileExists(fs, operation.destination_path)
              THEN RevertApply(World, operation) ELSE World
     IN /\ fs' = W.fs
        /\ dirs' = W.dirs
        /\ files' = W.files
        /\ ops' = W.ops
        /\ last' = RevertResult(operation.id,
                                IF fileExists(fs, operation.destination_path)
                                THEN "" ELSE RenameFailed)
  /\ rvp' = SubSeq(rvp, 1, k - 1) \o SubSeq(rvp, k + 1, Len(rvp))
  /\ UNCHANGED <<errs, now, nextBatch, scan, org, rev, ext, faults>>
  /\ UNCHANGED requests

\* ------------------------------------------------------- request layer
\* routes/files.js and routes/organize.js start scanDirectory and
\* organizeFiles without awaiting them and keep a flag, activeScan and
\* activeOrganize.  A started call runs on between the requests, one file per
\* step; its locals (the directories and files still to visit, a file between
\* the lookup and the insert, the rows still to organize) are in walks and
\* batches, while currentScanStatus and currentOrganizeStatus (scan and org)
\* are module variables that every call of the function writes.
Response(route, code) == [NoCall EXCEPT !.op = route, !.res = code]

\* an INSERT that does not look at the UNIQUE column
insertFileAny(tbl, row) == [tbl |-> Append(tbl, row), ok |-> TRUE]

\* fileQueries.insertFile on the files table of migrations.js:
\* original_path TEXT NOT NULL UNIQUE makes the INSERT of a second row with
\* the same original path throw
insertFile(tbl, row) ==
  IF \E i \in 1..Len(tbl) : tbl[i].original_path = row.original_path
  THEN [tbl |-> tbl, ok |-> FALSE]
  ELSE [tbl |-> Append(tbl, row), ok |-> TRUE]

\* a request is served
Request ==
  /\ served < MaxRequests
  /\ served' = served + 1

\* s without its k-th element
Without(q, k) == SubSeq(q, 1, k - 1) \o SubSeq(q, k + 1, Len(q))

\* routes/files.js POST /api/scan
PostScan(sourcePath) ==
  /\ Request
  /\ IF activeScan = "in_progress"
     THEN /\ last' = Response("POST /api/scan", "409")
          /\ UNCHANGED <<activeScan, scan, walks>>
     ELSE /\ Len(walks) < MaxWalks
          /\ activeScan' = "in_progress"
          /\ scan' = [IdleScan EXCEPT !.status = "in_progress", !.root = sourcePath,
                                      !.totalFiles = countFiles(fs, dirs, sourcePath)]
          /\ walks' = Append(walks, [root |-> sourcePath, todoDirs |-> <<sourcePath>>,
                                     todoFiles |-> <<>>, pending |-> NoPath])
          /\ last' = Response("POST /api/scan", "202")
  /\ UNCHANGED <<fs, dirs, files, ops, errs, now, nextBatch, org, rev, rvp, ext, faults,
                 activeOrganize, batches>>

\* routes/files.js POST /api/scan/cancel
CancelScan ==
  /\ Request
  /\ IF activeScan = "in_progress"
     THEN /\ activeScan' = "cancelled"
          /\ last' = Response("POST /api/scan/cancel", "200")
     ELSE /\ activeScan' = activeScan
          /\ last' = Response("POST /api/scan/cancel", "400")
  /\ UNCHANGED <<fs, dirs, files, ops, errs, now, nextBatch, scan, org, rev, rvp, ext,
                 faults, activeOrganize, walks, batches>>

\* routes/files.js GET /api/scan/status: {...activeScan, ...getScanStatus()}
GetScanStatus ==
  /\ Request
  /\ last' = Response("GET /api/scan/status",
                      IF activeScan = "none" /\ scan.status = "idle" THEN "idle"
                      ELSE IF scan.status # "idle" THEN scan.status ELSE activeScan)
  /\ UNCHANGED <<fs, dirs, files, ops, errs, now, nextBatch, scan, org, rev, rvp, ext,
                 faults, activeScan, activeOrganize, walks, batches>>

\* scanner.js processDirectory of the k-th running call: readdir
WalkDir(k) ==
  /\ k \in 1..Len(walks)
  /\ walks[k].todoFiles = <<>>
  /\ walks[k].pending = NoPath
  /\ walks[k].todoDirs # <<>>
  /\ LET d == Head(walks[k].todoDirs)
         rest == Tail(walks[k].todoDirs)
     IN IF d \notin dirs
        THEN /\ errs' = Append(errs, ErrorRow(NoId, Path(d, <<>>), "directory_access"))
             /\ walks' = [walks EXCEPT ![k].todoDirs = rest]
             /\ scan' = scan
        ELSE /\ errs' = errs
             /\ scan' = [scan EXCEPT !.skippedFiles =
                           @ + Cardinality({p \in FilesIn(fs, d) : shouldSkipFile(p.name)})]
             /\ \E q \in Orders({p \in FilesIn(fs, d) : ~shouldSkipFile(p.name)}) :
                walks' = [walks EXCEPT
                  ![k].todoFiles = q,
                  ![k].todoDirs = SortDirs({x \in SubDirs(dirs, d) : ~shouldSkipDirectory(x)}) \o rest]
  /\ UNCHANGED <<fs, dirs, files, ops, now, nextBatch, org, rev, rvp, last, ext, faults,
                 activeScan, activeOrganize, batches>>
  /\ UNCHANGED served

\* scanner.js processFile of the k-th running call up to
\* `await extractAllMetadata(filePath)`: the lookup by original path
WalkCheck(k) ==
  /\ k \in 1..Len(walks)
  /\ walks[k].pending = NoPath
  /\ walks[k].todoFiles # <<>>
  /\ LET p == Head(walks[k].todoFiles)
     IN IF getFileByPath(files, p) # {}
        THEN /\ scan' = [scan EXCEPT !.processedFiles = @ + 1, !.skippedFiles = @ + 1]
             /\ walks' = [walks EXCEPT ![k].todoFiles = Tail(@)]
        ELSE /\ scan' = scan
             /\ walks' = [walks EXCEPT ![k].todoFiles = Tail(@), ![k].pending = p]
  /\ UNCHANGED <<fs, dirs, files, ops, errs, now, nextBatch, org, rev, rvp, last, ext,
                 faults, activeScan, activeOrganize, batches>>
  /\ UNCHANGED served

\* scanner.js processFile of the k-th running call from the hashing on: the
\* INSERT, or the catch block when the file has gone or the INSERT throws
WalkInsert(k) ==
  /\ k \in 1..Len(walks)
  /\ walks[k].pending # NoPath
  /\ LET p == walks[k].pending
         out == insertFile(files, FileRow(Len(files) + 1, p, fs[p], now))
     IN IF fileExists(fs, p) /\ out.ok
        THEN /\ files' = out.tbl
             /\ scan' = [scan EXCEPT !.processedFiles = @ + 1, !.newFiles = @ + 1]
             /\ errs' = errs
        ELSE /\ files' = files
             /\ scan' = [scan EXCEPT !.processedFiles = @ + 1, !.errorFiles = @ + 1]
             /\ errs' = Append(errs, ErrorRow(NoId, p, "file_processing"))
  /\ walks' = [walks EXCEPT ![k].pending = NoPath]
  /\ UNCHANGED <<fs, dirs, ops, now, nextBatch, org, rev, rvp, last, ext, faults,
                 activeScan, activeOrganize, batches>>
  /\ UNCHANGED served

\* scanner.js scanDirectory after the walk, and the .then callback of
\* routes/files.js that runs when the call returns
WalkFinish(k) ==
  /\ k \in 1..Len(walks)
  /\ walks[k].todoFiles = <<>>
  /\ walks[k].todoDirs = <<>>
  /\ walks[k].pending = NoPath
  /\ scan' = [scan EXCEPT !.status = "completed"]
  /\ activeScan' = "completed"
  /\ walks' = Without(walks, k)
  /\ last' = [NoCall EXCEPT !.op = "scan", !.root = walks[k].root, !.n = scan.errorFiles]
  /\ UNCHANGED <<fs, dirs, files, ops, errs, now, nextBatch, org, rev, rvp, ext, faults,
                 activeOrganize, batches>>
  /\ UNCHANGED served

\* routes/organize.js POST /api/organize
PostOrganize(dryRun, fileIds) ==
  /\ Request
  /\ IF activeOrganize = "in_progress"
     THEN /\ last' = Response("POST /api/organize", "409")
          /\ UNCHANGED <<activeOrganize, org, batches, nextBatch>>
     ELSE /\ Len(batches) < MaxRunning
          /\ nextBatch <= MaxBatches
          /\ activeOrganize' = "in_progress"
          /\ org' = [IdleOrg EXCEPT !.status = "in_progress", !.batchId = nextBatch,
                                    !.dryRun = dryRun, !.ids = fileIds,
                                    !.totalFiles = Len(Selected(files, fileIds))]
          /\ batches' = Append(batches, [batchId |-> nextBatch, dryRun |-> dryRun,
                                         ids |-> fileIds,
                                         queue |-> Selected(files, fileIds)])
          /\ nextBatch' = nextBatch + 1
          /\ last' = Response("POST /api/organize", "202")
  /\ UNCHANGED <<fs, dirs, files, ops, errs, now, scan, rev, rvp, ext, faults,
                 activeScan, walks>>

\* routes/organize.js POST /api/organize/cancel
CancelOrganize ==
  /\ Request
  /\ IF activeOrganize = "in_progress"
     THEN /\ activeOrganize' = "cancelled"
          /\ last' = Response("POST /api/organize/cancel", "200")
     ELSE /\ activeOrganize' = activeOrganize
          /\ last' = Response("POST /api/organize/cancel", "400")
  /\ UNCHANGED <<fs, dirs, files, ops, errs, now, nextBatch, scan, org, rev, rvp, ext,
                 faults, activeScan, walks, batches>>

\* organizer.js organizeFile of the k-th running call, for the next row of
\* its list
BatchFile(k) ==
  /\ k \in 1..Len(batches)
  /\ batches[k].queue # <<>>
  /\ LET file == Head(batches[k].queue)
         batchId == batches[k].batchId
         o == [org EXCEPT !.processedFiles = @ + 1]
         sourcePath == file.current_path
         dup == checkForExistingDuplicate(files, file.hash_sha256, file.id)
         destPath == handleCollision(
                       generateDestinationPath(Base, file.resolved_date, file.filename),
                       file.hash_sha256, fs)
         Log(type, dst, reason) ==
           Append(ops, OpRow(ops, batchId, file.id, type, sourcePath, dst,
                             file.hash_sha256, reason))
     IN IF ~fileExists(fs, sourcePath)
        THEN /\ ops' = Log("skip", NoPath, "Source file not found")
             /\ org' = [o EXCEPT !.skippedFiles = @ + 1]
             /\ UNCHANGED <<fs, dirs, files>>
        ELSE IF dup # NoId
        THEN /\ files' = updateFile(files, [file EXCEPT !.status = "duplicate",
                                                         !.duplicate_of = dup])
             /\ ops' = Log("duplicate", files[dup].current_path, "Duplicate of file")
             /\ org' = [o EXCEPT !.duplicateFiles = @ + 1]
             /\ UNCHANGED <<fs, dirs>>
        ELSE IF batches[k].dryRun
        THEN /\ ops' = Log("move", destPath, "Dry run - would move")
             /\ org' = [o EXCEPT !.movedFiles = @ + 1]
             /\ UNCHANGED <<fs, dirs, files>>
        ELSE /\ dirs' = mkdirp(dirs, destPath.dir)
             /\ fs' = rename(fs, sourcePath, destPath)
             /\ files' = updateFile(files, [file EXCEPT !.current_path = destPath,
                                                         !.status = "moved",
                                                         !.duplicate_of = NoId])
             /\ ops' = Log("move", destPath, "File moved successfully")
             /\ org' = [o EXCEPT !.movedFiles = @ + 1]
  /\ batches' = [batches EXCEPT ![k].queue = Tail(@)]
  /\ UNCHANGED <<errs, now, nextBatch, scan, rev, rvp, last, ext, faults,
                 activeScan, activeOrganize, walks>>
  /\ UNCHANGED served

\* organizer.js organizeFiles after the loop, and the .then callback of
\* routes/organize.js that runs when the call returns
BatchFinish(k) ==
  /\ k \in 1..Len(batches)
  /\ batches[k].queue = <<>>
  /\ org' = [org EXCEPT !.status = "completed"]
  /\ activeOrganize' = "completed"
  /\ batches' = Without(batches, k)
  /\ last' = [NoCall EXCEPT !.op = "organize", !.batch = batches[k].batchId,
                            !.dry = batches[k].dryRun, !.ids = batches[k].ids]
  /\ UNCHANGED <<fs, dirs, files, ops, errs, now, nextBatch, scan, rev, rvp, ext, faults,
                 activeScan, walks>>
  /\ UNCHANGED served

\* a markDuplicates call between two steps of the running calls
CallMarkDuplicates ==
  /\ Request
  /\ DuplicateMarks(files) # {}
  /\ files' = markDuplicates(files)
  /\ last' = [NoCall EXCEPT !.op = "markDuplicates", !.n = Cardinality(DuplicateMarks(files))]
  /\ UNCHANGED <<fs, dirs, ops, errs, now, nextBatch, scan, org, rev, rvp, ext, faults,
                 activeScan, activeOrganize, walks, batches>>

\* routes/operations.js POST /api/operations/:id/revert
PostRevert(id) ==
  /\ Request
  /\ Len(ops) < MaxOps
  /\ IF id \notin 1..Len(ops)
     THEN /\ last' = Response("POST /api/operations/:id/revert", "404")
          /\ UNCHANGED <<fs, dirs, files, ops>>
     ELSE IF ops[id].status = "reverted" \/ ops[id].operation_type # "move"
     THEN /\ last' = Response("POST /api/operations/:id/revert", "400")
          /\ UNCHANGED <<fs, dirs, files, ops>>
     ELSE LET out == revertOperation(World, ops[id])
          IN /\ fs' = out.w.fs
             /\ dirs' = out.w.dirs
             /\ files' = out.w.files
             /\ ops' = out.w.ops
             /\ last' = RevertResult(id, out.error)
  /\ UNCHANGED <<errs, now, nextBatch, scan, org, rev, rvp, ext, faults,
                 activeScan, activeOrganize, walks, batches>>

Tick ==
  /\ now < MaxClock
  /\ org.status = "in_progress"
  /\ org.processedFiles > 0
  /\ org.queue # <<>>
  /\ now' = now + 1
  /\ UNCHANGED <<fs, dirs, files, ops, errs, nextBatch, scan, org, rev, rvp, last, ext, faults>>
  /\ UNCHANGED requests

ScanRoots == {SrcDir, Base}

Scans ==
  \/ \E root \in ScanRoots : Idle /\ ScanStart(root)
  \/ ScanDir
  \/ ScanFile
  \/ ScanFinish

\* the fileIds of an organize request: none (every pending file) or one file
Selections == {{}} \cup {{i} : i \in 1..Len(files)}

Externals ==
  \/ \E p \in DOMAIN fs : Idle /\ ExtDelete(p)
  \/ \E p \in DOMAIN fs, c \in Contents : Idle /\ ExtModify(p, c)

Next ==
  \/ Idle /\ MarkDuplicates
  \/ \E id \in 1..Len(ops) : Idle /\ RevertOperation(id)
  \/ \E batchId \in 1..MaxBatches : Idle /\ RevertBatch(batchId)
  \/ \E dryRun \in BOOLEAN, ids \in Selections : Idle /\ OrganizeStart(dryRun, ids)
  \/ OrganizeFile
  \/ OrganizeFinish
  \/ Tick

Spec == Init /\ [][Next]_vars

\* the catalog operations on a filesystem other programs change
NextX == Next \/ Externals

SpecX == InitX /\ [][NextX]_vars

NextScan == Scans \/ Externals

\* organize and revert requests served concurrently
NextI ==
  \/ \E dryRun \in BOOLEAN, ids \in Selections :
       org.status # "in_progress" /\ OrganizeStart(dryRun, ids)
  \/ OrganizeFile
  \/ OrganizeFinish
  \/ \E id \in 1..Len(ops) : RevertBegin(id)
  \/ \E k \in 1..MaxPending : RevertCommit(k)

SpecI == InitX /\ [][NextI]_vars

SpecScan == InitScan /\ [][NextScan]_vars

\* the requests and the steps of the calls they started
NextR ==
  \/ \E sourcePath \in ScanRoots : PostScan(sourcePath)
  \/ CancelScan
  \/ GetScanStatus
  \/ \E k \in 1..MaxWalks : WalkDir(k)
  \/ \E k \in 1..MaxWalks : WalkCheck(k)
  \/ \E k \in 1..MaxWalks : WalkInsert(k)
  \/ \E k \in 1..MaxWalks : WalkFinish(k)
  \/ \E dryRun \in BOOLEAN : PostOrganize(dryRun, {})
  \/ CancelOrganize
  \/ \E k \in 1..MaxRunning : BatchFile(k)
  \/ \E k \in 1..MaxRunning : BatchFinish(k)
  \/ CallMarkDuplicates
  \/ \E id \in 1..(Len(ops) + 1) : PostRevert(id)

\* the filesystems of the request layer: two files
Served == {L \in Fixed : Cardinality(DOMAIN L) = MaxFiles}

InitR == InitWith(Served, FALSE)

SpecR == InitR /\ [][NextR]_vars

\* ============================================================= properties
\* the ledger rows of a batch
BatchOps(batchId) == {i \in 1..Len(ops) : ops[i].batch_id = batchId}

\* the content of the file at p hashes to h
Holds(fsys, p, h) == fileExists(fsys, p) /\ calculateHash(fsys[p]) = h

\* the destination organizeFile computes for a row before it looks at the disk
Computed(row) == generateDestinationPath(Base, row.resolved_date, row.filename)

\* C1: with no external change to the filesystem, after any sequence of
\* organize, revertOperation and revertBatch calls every catalogued content is
\* on disk at its record's current_path (nothing has been overwritten or
\* deleted).
C1_NoFileLost ==
  ext = 0 => \A i \in 1..Len(files) :
               Holds(fs, files[i].current_path, files[i].hash_sha256)

\* C2: after a real organize followed directly by revertBatch of its batch,
\* every file the batch moved is back at its original path with the content
\* the ledger row's hash names, and its record's current_path is that path.
C2_RoundTrip ==
  (/\ ext = 0
   /\ last.op = "revertBatch"
   /\ last.res = "ok"
   /\ rev.after.op = "organize"
   /\ ~rev.after.dry
   /\ rev.after.batch = last.batch)
  => \A i \in BatchOps(last.batch) :
       ops[i].operation_type = "move"
       => /\ Holds(fs, ops[i].source_path, ops[i].hash_used)
          /\ files[ops[i].file_id].current_path = ops[i].source_path

\* C3: when a real organize has moved two files of different content whose
\* computed destination is the same, the two ledger rows name different
\* destinations and each file is on disk at its own destination.
C3_CollisionSafety ==
  (/\ ext = 0
   /\ last.op = "organize"
   /\ ~last.dry
   /\ org.status = "completed"
   /\ org.batchId = last.batch)
  => \A i, j \in BatchOps(last.batch) :
       (/\ i < j
        /\ ops[i].operation_type = "move"
        /\ ops[j].operation_type = "move"
        /\ ops[i].hash_used # ops[j].hash_used
        /\ Computed(files[ops[i].file_id]) = Computed(files[ops[j].file_id]))
       => /\ ops[i].destination_path # ops[j].destination_path
          /\ Holds(fs, ops[i].destination_path, ops[i].hash_used)
          /\ Holds(fs, ops[j].destination_path, ops[j].hash_used)

\* the hidden files under a root
Hidden(fsys, root) ==
  {p \in DOMAIN fsys : shouldSkipFile(p.name) /\ SubSeq(p.dir, 1, Len(root)) = root}

\* a scan of the root the previous call scanned without error, with nothing
\* changed on disk in between
Rescan(sc) ==
  /\ sc.status # "idle"
  /\ sc.after.op = "scan"
  /\ sc.after.root = sc.root
  /\ sc.after.n = 0

\* C4: a second scan of the same directory with no filesystem change in
\* between inserts no FileRecord, reports newFiles = 0, counts every eligible
\* file as skipped, and leaves no original path with two records.
C4_ScanIdempotent ==
  [][(Rescan(scan') /\ scan' # scan)
     => /\ files' = files
        /\ scan'.newFiles = 0
        /\ \A i, j \in 1..Len(files') :
             files'[i].original_path = files'[j].original_path => i = j
        /\ scan'.status = "completed"
           => /\ scan'.processedFiles = countFiles(fs', dirs', scan'.root)
              /\ scan'.skippedFiles = scan'.processedFiles
                                       + Cardinality(Hidden(fs', scan'.root))
              /\ scan'.errorFiles = 0]_vars

C4_Witness ==
  /\ Rescan(scan)
  /\ scan.status = "completed"
  /\ scan.skippedFiles = 2
  /\ Len(files) = 2

\* the pending records that carry hash h
PendingWith(tbl, h) ==
  {i \in 1..Len(tbl) : tbl[i].hash_sha256 = h /\ tbl[i].status = "pending"}

Earliest(S) == CHOOSE i \in S : \A j \in S : i <= j

\* markDuplicates leaves the earliest of the pending records with hash h
\* pending and makes the others duplicates of it
KeepsEarliest(h) ==
  LET P == PendingWith(files, h)
  IN /\ files'[Earliest(P)].status = "pending"
     /\ \A i \in P \ {Earliest(P)} :
          /\ files'[i].status = "duplicate"
          /\ files'[i].duplicate_of = Earliest(P)

Hashes == {calculateHash(c) : c \in Contents}

\* C5 as stated: whenever N >= 2 pending records share a fingerprint,
\* markDuplicates leaves the earliest of them pending and marks the others
\* as its duplicates.
C5_AsStated ==
  [][MarkDuplicates
     => \A h \in Hashes : Cardinality(PendingWith(files, h)) >= 2 => KeepsEarliest(h)]_vars

\* C5: whenever N >= 2 pending records share a fingerprint and no record
\* discovered before them carries it, markDuplicates leaves the earliest of
\* them pending and marks the others as its duplicates, whatever the order
\* of the later ones.
C5_DuplicateGrouping ==
  [][MarkDuplicates
     => \A h \in Hashes :
          (/\ Cardinality(PendingWith(files, h)) >= 2
           /\ \A i \in 1..Len(files) :
                files[i].hash_sha256 = h => i >= Earliest(PendingWith(files, h)))
          => KeepsEarliest(h)]_vars

C5_Witness ==
  /\ last.op = "markDuplicates"
  /\ last.n = 2
  /\ files[1].status = "pending"
  /\ \A i \in 2..3 : files[i].status = "duplicate" /\ files[i].duplicate_of = 1

\* C6: a dry-run organize moves, creates and deletes no file or directory and
\* changes no record's current_path; it only appends ledger rows, and counts
\* each would-be move as moved.
C6_DryRunPurity ==
  [][(org.status = "in_progress" /\ org.dryRun)
     => /\ fs' = fs
        /\ dirs' = dirs
        /\ Len(files') = Len(files)
        /\ \A i \in 1..Len(files) : files'[i].current_path = files[i].current_path
        /\ SubSeq(ops', 1, Len(ops)) = ops
        /\ (Len(ops') > Len(ops) /\ ops'[Len(ops')].operation_type = "move")
           => org'.movedFiles = org.movedFiles + 1]_vars

C6_Witness ==
  /\ last.op = "organize"
  /\ last.dry
  /\ org.status = "completed"
  /\ org.movedFiles = 2
  /\ \A i \in 1..Len(files) : files[i].current_path = files[i].original_path

\* the decision a batch recorded for a file: the kind of its ledger row and,
\* for a move, the destination
Decisions(batchId) ==
  {<<ops[i].file_id, ops[i].operation_type,
     IF ops[i].operation_type = "move" THEN ops[i].destination_path ELSE NoPath>> :
     i \in BatchOps(batchId)}

\* C7: a dry-run organize followed directly by a real organize over the same
\* selection records the same decision and, for moves, the same destination
\* for every file.
C7_DryRunFidelity ==
  (/\ ext = 0
   /\ last.op = "organize"
   /\ ~last.dry
   /\ org.status = "completed"
   /\ org.batchId = last.batch
   /\ org.after.op = "organize"
   /\ org.after.dry
   /\ org.after.ids = last.ids)
  => Decisions(org.after.batch) = Decisions(last.batch)

\* C8: a revertOperation call that fails changes no file, directory, record or
\* ledger row and appends nothing; a call on a completed move whose file is
\* no longer at the destination fails with the 'no longer exists' error.
C8_FailedRevertChangesNothing ==
  [][\A id \in 1..Len(ops) :
       (Idle /\ RevertOperation(id))
       => /\ last'.res # "ok" => UNCHANGED <<fs, dirs, files, ops>>
          /\ (/\ ops[id].operation_type = "move"
              /\ ops[id].status = "completed"
              /\ ~fileExists(fs, ops[id].destination_path))
             => /\ last'.res = NoLongerExists
                /\ files'[ops[id].file_id].status = files[ops[id].file_id].status]_vars

C8_Witness ==
  /\ ext = 1
  /\ last.op = "revert"
  /\ last.res = NoLongerExists
  /\ ops[last.entry].reason = "File moved successfully"
  /\ files[ops[last.entry].file_id].status = "moved"

\* C9: a revertOperation call never renames onto an existing file: if
\* something is at the row's original path when the call checks it or when
\* it renames, the call fails and the filesystem stays as it is, whatever
\* other organize or revert calls run in between.
C9_RevertNeverOverwrites ==
  [][/\ \A id \in 1..Len(ops) :
          (RevertBegin(id) /\ fileExists(fs, ops[id].source_path))
          => last'.op = "revert" /\ last'.res # "ok" /\ fs' = fs
     /\ \A k \in 1..Len(rvp) :
          (RevertCommit(k) /\ fileExists(fs, rvp[k].source_path))
          => last'.op = "revert" /\ last'.res # "ok" /\ fs' = fs]_vars

\* C10: when a move row carries a hash and the file at its destination has
\* another content, revertOperation fails and leaves the filesystem as it
\* is; when the row has not been reverted yet, the error is the 'modified
\* since it was moved' one.
C10_RevertIntegrity ==
  [][\A id \in 1..Len(ops) :
       (/\ Idle /\ RevertOperation(id)
        /\ ops[id].operation_type = "move"
        /\ ops[id].hash_used # NoHash
        /\ fileExists(fs, ops[id].destination_path)
        /\ calculateHash(fs[ops[id].destination_path]) # ops[id].hash_used)
       => /\ last'.res # "ok"
          /\ fs' = fs
          /\ ops[id].status = "completed" => last'.res = Modified]_vars

C10_Witness ==
  /\ ext = 1
  /\ last.op = "revert"
  /\ last.res = Modified
  /\ fileExists(fs, ops[last.entry].destination_path)

\* C11: through the request layer at most one scanDirectory walk and at most
\* one organizeFiles batch is running at any time: a start request made while
\* one is still running gets 409 and starts nothing, whatever start, cancel
\* and status requests and completions came before.
C11_OneAtATime ==
  [][/\ Len(walks') <= 1
     /\ Len(batches') <= 1
     /\ \A sourcePath \in ScanRoots :
          (PostScan(sourcePath) /\ walks # <<>>)
          => last'.res = "409" /\ walks' = walks /\ scan' = scan
     /\ \A dryRun \in BOOLEAN :
          (PostOrganize(dryRun, {}) /\ batches # <<>>)
          => last'.res = "409" /\ batches' = batches /\ org' = org]_vars

\* C12: after any sequence of scan, rescan, markDuplicates, organize and
\* revert requests, two scans of the same tree running interleaved included,
\* no two FileRecords have the same original path and no FileRecord's
\* original path differs from the one it was created with.
C12_OriginalPath ==
  [][/\ Len(files') >= Len(files)
     /\ \A i \in 1..Len(files) : files'[i].original_path = files[i].original_path
     /\ \A i, j \in 1..Len(files') :
          files'[i].original_path = files'[j].original_path => i = j]_vars

\* two walks had looked up the same path before either inserted it, and the
\* second INSERT was refused
C12_Witness ==
  /\ ops = <<>>
  /\ \E e \in 1..Len(errs) :
       /\ errs[e].error_type = "file_processing"
       /\ fileExists(fs, errs[e].file_path)
       /\ getFileByPath(files, errs[e].file_path) # {}

\* C13: in every reachable catalog state a FileRecord's duplicate_of is set
\* exactly when its status is duplicate, and a set duplicate_of names another
\* existing record: never the record itself, never a record with status
\* error.
C13_DuplicateOf ==
  \A i \in 1..Len(files) :
    /\ files[i].duplicate_of # NoId <=> files[i].status = "duplicate"
    /\ files[i].duplicate_of # NoId
       => /\ files[i].duplicate_of \in 1..Len(files)
          /\ files[i].duplicate_of # i
          /\ files[files[i].duplicate_of].status # "error"

\* markDuplicates has marked one record, organize another, and the original
\* of the first has been moved and moved back since
C13_Witness ==
  /\ \E i, j \in 1..Len(files) :
       /\ i # j
       /\ files[i].status = "duplicate"
       /\ files[j].status = "moved"
       /\ files[i].duplicate_of = j
  /\ \E k \in 1..Len(ops) : ops[k].operation_type = "duplicate"
  /\ \E k \in 1..Len(ops) : ops[k].status = "reverted"

\* C14: the ledger is append-only: no ledger entry is ever deleted, no field
\* of an existing entry ever changes except that its status may go from
\* completed to reverted, and an entry that is reverted never becomes
\* completed again.
C14_AppendOnly ==
  [][/\ Len(ops') >= Len(ops)
     /\ \A i \in 1..Len(ops) :
          \/ ops'[i] = ops[i]
          \/ /\ ops[i].status = "completed"
             /\ ops'[i] = [ops[i] EXCEPT !.status = "reverted"]]_vars

\* a move was reverted, and organize has appended a move for the same file
\* after the revert's own entry
C14_Witness ==
  \E i, j, k \in 1..Len(ops) :
    /\ i < j /\ j < k
    /\ ops[i].operation_type = "move" /\ ops[i].status = "reverted"
    /\ ops[j].operation_type = "revert" /\ ops[j].status = "completed"
    /\ ops[k].operation_type = "move" /\ ops[k].status = "completed"
    /\ ops[k].file_id = ops[i].file_id

\* the completed 'move' rows a real run wrote for file i with the given
\* destination
MoveRows(tbl, i, dst) ==
  {k \in 1..Len(tbl) : /\ tbl[k].operation_type = "move"
                        /\ tbl[k].status = "completed"
                        /\ tbl[k].reason = "File moved successfully"
                        /\ tbl[k].file_id = i
                        /\ tbl[k].destination_path = dst}

\* C15: every filesystem move is recorded: whenever a FileRecord has status
\* moved there is a completed ledger entry of kind move for that file whose
\* destination path is the record's current_path, and the entry written
\* when the record becomes moved has the path the record had until then as
\* its source path.
C15_MovesRecorded ==
  [][\A i \in 1..Len(files') :
       files'[i].status = "moved"
       => /\ MoveRows(ops', i, files'[i].current_path) # {}
          /\ (i \in 1..Len(files) /\ files[i].status # "moved")
             => /\ MoveRows(ops', i, files'[i].current_path) \ MoveRows(ops, i, files'[i].current_path)
                     = {Len(ops')}
                /\ ops'[Len(ops')].source_path = files[i].current_path]_vars

\* a file that was moved to a numbered name, reverted and moved again
C15_Witness ==
  \E i \in 1..Len(files) :
    /\ files[i].status = "moved"
    /\ files[i].current_path.name # files[i].filename
    /\ MoveRows(ops, i, files[i].current_path) # {}
    /\ \E k \in 1..Len(ops) : ops[k].file_id = i /\ ops[k].status = "reverted"

\* the records with status moved that carry hash h
MovedWith(tbl, h) ==
  {i \in 1..Len(tbl) : tbl[i].hash_sha256 = h /\ tbl[i].status = "moved"}

\* C16: after any sequence of markDuplicates, organize and revert calls on a
\* scanned catalog at most one FileRecord with status moved carries any given
\* full fingerprint, and organize, reaching a pending record whose
\* fingerprint an already-moved record carries, marks it as a duplicate of
\* that record, writes a 'duplicate' ledger entry and does not move it.
C16_OneMovedPerHash ==
  [][/\ \A h \in Hashes : Cardinality(MovedWith(files', h)) <= 1
     /\ (/\ OrganizeFile
         /\ MovedWith(files, Head(org.queue).hash_sha256) # {})
        => LET file == Head(org.queue)
           IN /\ files'[file.id].status = "duplicate"
              /\ files'[file.id].duplicate_of \in MovedWith(files, file.hash_sha256)
              /\ files'[file.id].current_path = file.current_path
              /\ fs' = fs
              /\ Len(ops') = Len(ops) + 1
              /\ ops'[Len(ops')].operation_type = "duplicate"
              /\ ops'[Len(ops')].file_id = file.id]_vars

\* a real run moved the first of two files with one content and marked the
\* second, which is still where it was
C16_Witness ==
  /\ last.op = "organize"
  /\ ~last.dry
  /\ \E i, j \in 1..Len(files) :
       /\ files[j].status = "moved"
       /\ files[i].status = "duplicate"
       /\ files[i].duplicate_of = j
       /\ files[i].hash_sha256 = files[j].hash_sha256
       /\ Holds(fs, files[i].original_path, files[i].hash_sha256)
       /\ \E k \in BatchOps(last.batch) :
            ops[k].operation_type = "duplicate" /\ ops[k].file_id = i

\* C17: organize acts only on records that are pending when selected (all
\* pending records, or the given ids restricted to pending): a record with
\* status duplicate or moved is never moved, keeps its current_path and
\* status and gets no ledger entry; so a run that follows markDuplicates
\* moves, of the records with one content, only the earliest-discovered one.
C17_OnlyPending ==
  [][/\ \A dryRun \in BOOLEAN, ids \in Selections :
          (Idle /\ OrganizeStart(dryRun, ids))
          => /\ \A k \in 1..Len(org'.queue) :
                  /\ org'.queue[k] = files[org'.queue[k].id]
                  /\ org'.queue[k].status = "pending"
                  /\ ids # {} => org'.queue[k].id \in ids
             /\ \A i \in 1..Len(files) :
                  (files[i].status = "pending" /\ (ids = {} \/ i \in ids))
                  => \E k \in 1..Len(org'.queue) : org'.queue[k].id = i
     /\ OrganizeFile
        => \A i \in 1..Len(files) :
             files[i].status \in {"duplicate", "moved"}
             => /\ files'[i] = files[i]
                /\ fileExists(fs, files[i].current_path)
                   => fileExists(fs', files[i].current_path)
                /\ Len(ops') > Len(ops) => ops'[Len(ops')].file_id # i
     /\ (OrganizeFinish /\ ~org.dryRun /\ org.after.op = "markDuplicates")
        => \A k \in BatchOps(org.batchId) :
             ops[k].operation_type = "move"
             => \A j \in 1..Len(files) :
                  files[j].hash_sha256 = ops[k].hash_used => ops[k].file_id <= j]_vars

\* scenario A: a.txt and b.txt with one content, markDuplicates, organize:
\* one ledger entry, a.txt moved, b.txt a duplicate where it was
C17_Witness ==
  /\ last.op = "organize"
  /\ ~last.dry
  /\ org.after.op = "markDuplicates"
  /\ Len(files) = 2
  /\ Cardinality(BatchOps(last.batch)) = 1
  /\ files[1].status = "moved"
  /\ files[2].status = "duplicate"
  /\ files[2].duplicate_of = 1
  /\ files[2].current_path = files[2].original_path
  /\ Holds(fs, files[2].current_path, files[2].hash_sha256)

\* the step is a real move of the row at the head of the queue, whose
\* computed destination another content occupies
CollidingMove ==
  /\ OrganizeFile
  /\ ~org.dryRun
  /\ Len(ops') > Len(ops)
  /\ ops'[Len(ops')].operation_type = "move"
  /\ fileExists(fs, Computed(Head(org.queue)))
  /\ calculateHash(fs[Computed(Head(org.queue))]) # Head(org.queue).hash_sha256

\* the numbers k of the numbered names of path c that are free, among 1..n
FreeNumbers(fsys, c, n) == {k \in 1..n : ~fileExists(fsys, Suffixed(c, ToString(k)))}

\* the move row just written names the path the file went to
RecordedWhereMoved ==
  LET row == ops'[Len(ops')]
  IN /\ row.source_path = Head(org.queue).current_path
     /\ ~fileExists(fs', row.source_path)
     /\ Holds(fs', row.destination_path, row.hash_used)
     /\ files'[row.file_id].current_path = row.destination_path

\* C18 as stated: when the computed destination is occupied by a file of
\* another content, organize moves the file to '<name> (k)' for the lowest
\* k >= 1 whose path is free, and the move entry names that path.
C18_AsStated ==
  [][CollidingMove
     => LET c == Computed(Head(org.queue))
            free == FreeNumbers(fs, c, CollisionLimit + 1)
        IN /\ free # {}
           /\ ops'[Len(ops')].destination_path = Suffixed(c, ToString(Earliest(free)))
           /\ RecordedWhereMoved]_vars

\* C18: when the computed destination is occupied by a file of another
\* content, organize moves the file to '<name> (k)' for the lowest k whose
\* path is free among the numbered names it tries (1..99 in the code), and to
\* '<name> (<first 8 characters of the hash>)' when all of those are taken;
\* the move entry names the path the file went to.
C18_NumberedName ==
  [][CollidingMove
     => LET c == Computed(Head(org.queue))
            free == FreeNumbers(fs, c, CollisionLimit - 1)
        IN /\ ops'[Len(ops')].destination_path =
                IF free # {} THEN Suffixed(c, ToString(Earliest(free)))
                ELSE Suffixed(c, HashPrefix(Head(org.queue).hash_sha256))
           /\ RecordedWhereMoved]_vars

\* scenario C: the destination held a same-named file of another content; the
\* file is at '<name> (1)' and the move entry names that path
C18_Witness ==
  /\ last.op = "organize"
  /\ ~last.dry
  /\ \E k \in BatchOps(last.batch) :
       /\ ops[k].operation_type = "move"
       /\ ops[k].source_path = Path(SrcDir, <<"a">>)
       /\ ops[k].destination_path = Path(DateDir, <<"a", "1">>)
       /\ Holds(fs, ops[k].destination_path, ops[k].hash_used)
       /\ fileExists(fs, Path(DateDir, <<"a">>))
       /\ calculateHash(fs[Path(DateDir, <<"a">>)]) # ops[k].hash_used

\* ------------------------------------------------------- date resolution
\* Instants are whole days on the wall clock `now` counts; a date string is
\* a record [form, t]: the form it is written in and the instant it names.

MinDate == -1       \* new Date('1970-01-01'), in days before the initial clock
OneDay == 1         \* maxDate.setDate(maxDate.getDate() + 1)

\* the instants a candidate can name: from the day before 1970-01-01 to
\* after the latest day isValidDate can accept
Instants == (MinDate - 1)..(MaxClock + OneDay + 1)

\* Date.prototype.toISOString of a valid Date
toISOString(date) == [form |-> "iso", t |-> date.t]

\* the values of a metadata field: null, '', a string Date cannot parse, and
\* date strings in ISO form and in another form Date parses (with an offset)
NullDate == [form |-> "null", t |-> 0]
DateForms == {"iso", "offset"}
DateStrings == {[form |-> f, t |-> t] : f \in DateForms, t \in Instants}
FieldValues ==
  {NullDate, [form |-> "empty", t |-> 0], [form |-> "invalid", t |-> 0]} \cup DateStrings

\* JavaScript truthiness of a field value
Truthy(v) == v.form \notin {"null", "empty"}

\* new Date(v): the Date object, Invalid Date when v does not parse
newDate(v) ==
  IF v.form \in DateForms THEN [nan |-> FALSE, t |-> v.t] ELSE [nan |-> TRUE, t |-> 0]

\* a validity check without the one-day allowance
isValidDateStrict(date, today) ==
  /\ ~date.nan
  /\ date.t >= MinDate /\ date.t <= today

\* dateResolver.js isValidDate, at wall-clock time today
isValidDate(date, today) ==
  /\ ~date.nan
  /\ date.t >= MinDate /\ date.t <= today + OneDay

\* a resolver that asks the filesystem creation time first
resolveDateCreatedFirst(metadata, today) ==
  IF Truthy(metadata.createdAt) /\ isValidDate(newDate(metadata.createdAt), today)
  THEN [date |-> toISOString(newDate(metadata.createdAt)), source |-> "created"]
  ELSE IF Truthy(metadata.exifDate) /\ isValidDate(newDate(metadata.exifDate), today)
  THEN [date |-> toISOString(newDate(metadata.exifDate)), source |-> "exif"]
  ELSE IF Truthy(metadata.modifiedAt) /\ isValidDate(newDate(metadata.modifiedAt), today)
  THEN [date |-> toISOString(newDate(metadata.modifiedAt)), source |-> "modified"]
  ELSE [date |-> toISOString([nan |-> FALSE, t |-> today]), source |-> "discovered"]

\* dateResolver.js resolveDate, at wall-clock time today
resolveDate(metadata, today) ==
  IF Truthy(metadata.exifDate) /\ isValidDate(newDate(metadata.exifDate), today)
  THEN [date |-> toISOString(newDate(metadata.exifDate)), source |-> "exif"]
  ELSE IF Truthy(metadata.createdAt) /\ isValidDate(newDate(metadata.createdAt), today)
  THEN [date |-> toISOString(newDate(metadata.createdAt)), source |-> "created"]
  ELSE IF Truthy(metadata.modifiedAt) /\ isValidDate(newDate(metadata.modifiedAt), today)
  THEN [date |-> toISOString(newDate(metadata.modifiedAt)), source |-> "modified"]
  ELSE [date |-> toISOString([nan |-> FALSE, t |-> today]), source |-> "discovered"]

\* the metadata objects a caller can hand to resolveDate
AnyMetadata == [exifDate : FieldValues, createdAt : FieldValues, modifiedAt : FieldValues]

\* the metadata extractAllMetadata can produce: stat times as ISO strings,
\* the EXIF date as an ISO string or null
IsoStrings == {v \in DateStrings : v.form = "iso"}
FileMetadata ==
  [exifDate : IsoStrings \cup {NullDate}, createdAt : IsoStrings, modifiedAt : IsoStrings]

\* a caller about to hand the metadata object m to resolveDate
Caller(m) ==
  [arg |-> m, at |-> 0, out |-> [date |-> NullDate, source |-> ""]] @@ NoCall

\* a call of resolveDate on the caller's metadata object; `last` keeps the
\* argument, the time of the call and the result
CallResolveDate ==
  /\ last.op \in {"none", "resolveDate"}
  /\ last' = [last EXCEPT !.op = "resolveDate", !.at = now,
                          !.out = resolveDate(last.arg, now)]
  /\ UNCHANGED <<fs, dirs, files, ops, errs, now, nextBatch, scan, org, rev, rvp, ext, faults>>
  /\ UNCHANGED requests

\* the wall clock advances between two calls
Wait ==
  /\ now < MaxClock
  /\ now' = now + 1
  /\ UNCHANGED <<fs, dirs, files, ops, errs, nextBatch, scan, org, rev, rvp, last, ext, faults>>
  /\ UNCHANGED requests

\* the date columns processFile adds to the row it inserts
DatedRow(row, metadata, today) ==
  [created_at |-> metadata.createdAt, modified_at |-> metadata.modifiedAt,
   exif_date |-> metadata.exifDate,
   resolved_date |-> resolveDate(metadata, today).date,
   date_source |-> resolveDate(metadata, today).source] @@ row

\* scanner.js processFile on a file of the disk whose metadata is read now
ProcessFile(p, metadata) ==
  /\ fileExists(fs, p)
  /\ scan.processedFiles < MaxRequests
  /\ IF getFileByPath(files, p) # {}
     THEN /\ scan' = [scan EXCEPT !.processedFiles = @ + 1, !.skippedFiles = @ + 1]
          /\ files' = files
     ELSE /\ files' = Append(files, DatedRow(FileRow(Len(files) + 1, p, fs[p], now),
                                             metadata, now))
          /\ scan' = [scan EXCEPT !.processedFiles = @ + 1, !.newFiles = @ + 1]
  /\ UNCHANGED <<fs, dirs, ops, errs, now, nextBatch, org, rev, rvp, last, ext, faults>>
  /\ UNCHANGED requests

\* one file in the source tree, not yet scanned
OneFile == {L \in Fixed : DOMAIN L = {Path(SrcDir, <<"a">>)}}

InitDates == InitWith(OneFile, FALSE)

\* a caller holding any metadata object, before its call
InitResolve ==
  /\ fs \in OneFile
  /\ dirs = DirsOf(fs)
  /\ files = <<>>
  /\ ops = <<>>
  /\ errs = <<>>
  /\ now = 0
  /\ nextBatch = 1
  /\ scan = IdleScan
  /\ org = IdleOrg
  /\ rev = IdleRev
  /\ rvp = <<>>
  /\ last \in {Caller(m) : m \in AnyMetadata}
  /\ ext = 0
  /\ faults = MaxFaults
  /\ activeScan = "none"
  /\ activeOrganize = "none"
  /\ walks = <<>>
  /\ batches = <<>>
  /\ served = 0

\* calls of resolveDate as the clock advances
NextResolve == CallResolveDate \/ Wait

SpecResolve == InitResolve /\ [][NextResolve]_vars

\* files processed as the clock advances
NextProcess ==
  \/ \E p \in DOMAIN fs, metadata \in FileMetadata : ProcessFile(p, metadata)
  \/ Wait

SpecProcess == InitDates /\ [][NextProcess]_vars

\* the candidate v is a date string naming an instant isValidDate accepts at t0
InRange(v, t0) == v.form \in DateForms /\ MinDate <= v.t /\ v.t <= t0 + OneDay

\* the positions of the candidates, in priority order, that are in range at t0
ValidAt(cands, t0) == {i \in 1..Len(cands) : InRange(cands[i], t0)}

SourceTags == <<"exif", "created", "modified">>

\* C19: resolveDate returns the first valid candidate in the order embedded
\* (EXIF) date, filesystem creation time, filesystem modification time, as an
\* ISO string with that candidate's source; an absent or invalid candidate is
\* skipped, and when none is valid the result is the current time with
\* source discovered.
C19_FirstValid ==
  last.op = "resolveDate"
  => LET cands == <<last.arg.exifDate, last.arg.createdAt, last.arg.modifiedAt>>
         valid == ValidAt(cands, last.at)
     IN IF valid = {}
        THEN last.out = [date |-> [form |-> "iso", t |-> last.at], source |-> "discovered"]
        ELSE last.out = [date |-> [form |-> "iso", t |-> cands[Earliest(valid)].t],
                         source |-> SourceTags[Earliest(valid)]]

\* an invalid EXIF string and a future creation time are skipped: the result
\* is the modification time, written in ISO form
C19_Witness ==
  /\ last.op = "resolveDate"
  /\ last.arg.exifDate.form = "invalid"
  /\ last.arg.createdAt.form = "iso" /\ last.arg.createdAt.t > last.at + OneDay
  /\ last.arg.modifiedAt.form = "offset" /\ last.arg.modifiedAt.t = MinDate
  /\ last.out = [date |-> [form |-> "iso", t |-> MinDate], source |-> "modified"]

\* C20 as stated: every record's source tag is one of metadata, created,
\* modified, discovered, and a record whose embedded capture date is present
\* and valid has source tag metadata.
C20_AsStated ==
  \A i \in 1..Len(files) :
    /\ files[i].date_source \in {"metadata", "created", "modified", "discovered"}
    /\ InRange(files[i].exif_date, now) => files[i].date_source = "metadata"

\* C20: every record's source tag is one of exif, created, modified,
\* discovered, and a record whose embedded capture date was present and valid
\* when the record was scanned has source tag exif.
C20_SourceTag ==
  \A i \in 1..Len(files) :
    /\ files[i].date_source \in {"exif", "created", "modified", "discovered"}
    /\ InRange(files[i].exif_date, files[i].created_timestamp)
       => files[i].date_source = "exif"

\* a record scanned with an embedded date one day ahead of the clock, the
\* latest isValidDate accepts: its tag is exif and its date the embedded one
C20_Witness ==
  \E i \in 1..Len(files) :
    /\ files[i].exif_date.form = "iso"
    /\ files[i].exif_date.t = files[i].created_timestamp + OneDay
    /\ files[i].date_source = "exif"
    /\ files[i].resolved_date = files[i].exif_date

\* ------------------------------------------------- scans of failing paths
\* another program removes the directory d and everything under it
ExtRmdir(d) ==
  /\ ext < MaxExt
  /\ d \in dirs /\ d # <<>>
  /\ dirs' = {x \in dirs : d \notin Prefixes(x)}
  /\ fs' = [p \in {q \in DOMAIN fs : d \notin Prefixes(q.dir)} |-> fs[p]]
  /\ ext' = ext + 1
  /\ last' = [NoCall EXCEPT !.op = "external"]
  /\ UNCHANGED <<files, ops, errs, now, nextBatch, scan, org, rev, rvp, faults>>
  /\ UNCHANGED requests

\* a directory that does not exist
Missing == <<"nonexistent">>

\* the roots a scan is asked to walk
Roots == ScanRoots \cup {Missing}

\* scans of any root, while other programs remove files and directories
NextRoots ==
  \/ \E root \in Roots : Idle /\ Len(errs) < MaxErrs /\ ScanStart(root)
  \/ ScanDir
  \/ ScanFile
  \/ ScanFinish
  \/ \E p \in DOMAIN fs : ExtDelete(p)
  \/ \E d \in dirs : ExtRmdir(d)

SpecRoots == InitScan /\ [][NextRoots]_vars

\* the walk is at its root and the root cannot be enumerated
RootFails ==
  /\ ScanDir
  /\ Head(scan.todoDirs) = scan.root
  /\ scan.root \notin dirs

\* the walk is at a subdirectory that cannot be enumerated
SubdirFails ==
  /\ ScanDir
  /\ Head(scan.todoDirs) # scan.root
  /\ Head(scan.todoDirs) \notin dirs

\* the walk is at an uncatalogued file that cannot be read
FileFails ==
  /\ ScanFile
  /\ getFileByPath(files, Head(scan.todoFiles)) = {}
  /\ ~fileExists(fs, Head(scan.todoFiles))

C22_MissingRoot ==
  [][/\ \A root \in Roots :
          (Idle /\ ScanStart(root) /\ root \notin dirs)
          => scan'.totalFiles = 0 /\ files' = files
     /\ ((ScanDir \/ ScanFile) /\ scan.root \notin dirs /\ scan.totalFiles = 0)
        => /\ files' = files
           /\ scan'.status = "in_progress" /\ scan'.newFiles = 0
     /\ (ScanFinish /\ scan.root \notin dirs /\ scan.totalFiles = 0)
        => /\ scan'.status = "completed"
           /\ scan'.totalFiles = 0 /\ scan'.newFiles = 0
           /\ files' = files]_vars

\* a finished scan of the directory that does not exist, on a disk that
\* holds files
C22_Witness ==
  /\ last.op = "scan"
  /\ last.root = Missing
  /\ scan.status = "completed"
  /\ scan.totalFiles = 0 /\ scan.newFiles = 0
  /\ files = <<>>
  /\ DOMAIN fs # {}

\* ------------------------------------------------------------------ preview
\* organizer.js previewOrganization: one entry per selected pending row
previewOrganization(tbl, ids) ==
  LET filesToPreview == Selected(tbl, ids)
  IN [k \in 1..Len(filesToPreview) |->
        LET file == filesToPreview[k]
            existingDuplicate == checkForExistingDuplicate(tbl, file.hash_sha256, file.id)
        IN [id |-> file.id, filename |-> file.filename,
            sourcePath |-> file.current_path,
            destinationPath |-> generateDestinationPath(Base, file.resolved_date,
                                                        file.filename),
            action |-> IF existingDuplicate # NoId THEN "duplicate" ELSE "move",
            duplicateOf |-> existingDuplicate]]

\* a call of previewOrganization; `last` keeps what it returned
PreviewOrganization(ids) ==
  /\ last' = [out |-> previewOrganization(files, ids)]
               @@ [NoCall EXCEPT !.op = "preview", !.ids = ids]
  /\ UNCHANGED <<fs, dirs, files, ops, errs, now, nextBatch, scan, org, rev, rvp, ext, faults>>
  /\ UNCHANGED requests

\* previews and organize runs, one at a time
NextPreview ==
  \/ \E ids \in Selections : Idle /\ last.op # "preview" /\ PreviewOrganization(ids)
  \/ \E dryRun \in BOOLEAN, ids \in Selections : Idle /\ OrganizeStart(dryRun, ids)
  \/ OrganizeFile
  \/ OrganizeFinish

SpecPreview == Init /\ [][NextPreview]_vars

\* C23: for every pending record, previewOrganization reports the same
\* action (move or duplicate) and the same destination path that a real
\* organize run started from the same state with the same selection then
\* records for that record, also when the computed destination is occupied
\* and the real run applies a collision suffix.
C23_PreviewFidelity ==
  [][(/\ OrganizeFile
      /\ ~org.dryRun
      /\ org.after.op = "preview"
      /\ org.after.ids = org.ids
      /\ Len(ops') > Len(ops))
     => LET file == Head(org.queue)
            row == ops'[Len(ops')]
            out == org.after.out
        IN /\ \E k \in 1..Len(out) : out[k].id = file.id
           /\ \A k \in 1..Len(out) :
                out[k].id = file.id
                => /\ row.operation_type = out[k].action
                   /\ row.destination_path = out[k].destinationPath]_vars

\* ------------------------------------------------------------ revert checks
\* revert.js canRevert: whether it says the row can be reverted, and why not
canRevert(fsys, operation) ==
  IF operation.operation_type # "move"
  THEN [canRevert |-> FALSE, reason |-> NotMove]
  ELSE IF operation.status = "reverted"
  THEN [canRevert |-> FALSE, reason |-> AlreadyReverted]
  ELSE IF ~fileExists(fsys, operation.destination_path)
  THEN [canRevert |-> FALSE, reason |-> "File no longer exists at destination"]
  ELSE IF fileExists(fsys, operation.source_path)
  THEN [canRevert |-> FALSE, reason |-> Occupied]
  ELSE [canRevert |-> TRUE, reason |-> ""]

\* revert.js previewBatchRevert: one entry per completed move row of the batch
previewBatchRevert(fsys, tbl, batchId) ==
  LET operations == Revertible(tbl, batchId)
  IN [k \in 1..Len(operations) |->
        [operationId |-> operations[k].id, fileId |-> operations[k].file_id,
         currentPath |-> operations[k].destination_path,
         originalPath |-> operations[k].source_path,
         canRevert |-> canRevert(fsys, operations[k]).canRevert,
         reason |-> canRevert(fsys, operations[k]).reason]]

\* a call of canRevert with the ledger row of that id
CanRevert(id) ==
  /\ last' = [ok |-> canRevert(fs, ops[id]).canRevert]
               @@ [NoCall EXCEPT !.op = "canRevert", !.entry = id,
                                 !.res = canRevert(fs, ops[id]).reason]
  /\ UNCHANGED <<fs, dirs, files, ops, errs, now, nextBatch, scan, org, rev, rvp, ext, faults>>
  /\ UNCHANGED requests

\* a call of previewBatchRevert
PreviewBatchRevert(batchId) ==
  /\ last' = [out |-> previewBatchRevert(fs, ops, batchId)]
               @@ [NoCall EXCEPT !.op = "previewBatchRevert", !.batch = batchId]
  /\ UNCHANGED <<fs, dirs, files, ops, errs, now, nextBatch, scan, org, rev, rvp, ext, faults>>
  /\ UNCHANGED requests

\* organize runs, reverts and the revert checks, one at a time, on a
\* filesystem other programs change
NextCan ==
  \/ \E dryRun \in BOOLEAN : Idle /\ OrganizeStart(dryRun, {})
  \/ OrganizeFile
  \/ OrganizeFinish
  \/ \E id \in 1..Len(ops) : Idle /\ RevertOperation(id)
  \/ \E id \in 1..Len(ops) : Idle /\ CanRevert(id)
  \/ \E batchId \in 1..MaxBatches : Idle /\ PreviewBatchRevert(batchId)
  \/ Externals

SpecCan == InitX /\ [][NextCan]_vars

\* C24: canRevert applies the same precondition checks as revertOperation:
\* for every ledger entry and state, canRevert says the entry can be
\* reverted exactly when revertOperation run in that state would succeed (so
\* not when the file at the destination no longer matches the entry's
\* verification hash), previewBatchRevert reports the same for every entry
\* it lists, and neither changes a file, a record or a ledger entry.
C24_SameChecks ==
  [][/\ \A id \in 1..Len(ops) :
          (Idle /\ CanRevert(id))
          => /\ last'.ok <=> (revertOperation(World, ops[id]).error = "")
             /\ UNCHANGED <<fs, dirs, files, ops>>
     /\ \A batchId \in 1..MaxBatches :
          (Idle /\ PreviewBatchRevert(batchId))
          => /\ \A k \in 1..Len(last'.out) :
                  last'.out[k].canRevert
                  <=> (revertOperation(World, ops[last'.out[k].operationId]).error = "")
             /\ UNCHANGED <<fs, dirs, files, ops>>]_vars

\* C25: a successful revertOperation on a move entry has exactly these
\* effects: the file is at the entry's source path and no longer at its
\* destination path, the file's record has current_path equal to that source
\* path, status pending and no duplicate_of, the reverted entry has status
\* reverted, and exactly one new ledger entry, of kind revert, is appended
\* under a batch id different from the reverted entry's (and from every
\* batch id in the ledger); no other file, record or entry changes.
C25_RevertEffects ==
  [][\A id \in 1..Len(ops) :
       (Idle /\ RevertOperation(id) /\ last'.res = "ok")
       => LET e == ops[id]
              src == e.source_path
              dst == e.destination_path
          IN /\ e.operation_type = "move"
             /\ fileExists(fs', src) /\ fs'[src] = fs[dst]
             /\ ~fileExists(fs', dst)
             /\ \A p \in (DOMAIN fs \cup DOMAIN fs') \ {src, dst} :
                  /\ p \in DOMAIN fs /\ p \in DOMAIN fs'
                  /\ fs'[p] = fs[p]
             /\ files' = [files EXCEPT ![e.file_id] =
                            [@ EXCEPT !.current_path = src, !.status = "pending",
                                      !.duplicate_of = NoId]]
             /\ Len(ops') = Len(ops) + 1
             /\ \A k \in 1..Len(ops) :
                  ops'[k] = IF k = id THEN [e EXCEPT !.status = "reverted"] ELSE ops[k]
             /\ LET row == ops'[Len(ops')]
                IN /\ row.operation_type = "revert"
                   /\ row.file_id = e.file_id
                   /\ row.source_path = dst /\ row.destination_path = src
                   /\ \A k \in 1..Len(ops) : row.batch_id # ops[k].batch_id]_vars

\* a move was reverted: the file is back at its source, its record pending,
\* the entry reverted and a revert entry of another batch is the last row
C25_Witness ==
  /\ last.op = "revert" /\ last.res = "ok"
  /\ LET e == ops[last.entry]
     IN /\ e.status = "reverted" /\ e.operation_type = "move"
        /\ Holds(fs, e.source_path, e.hash_used)
        /\ ~fileExists(fs, e.destination_path)
        /\ files[e.file_id].status = "pending"
        /\ files[e.file_id].current_path = e.source_path
        /\ ops[Len(ops)].operation_type = "revert"
        /\ ops[Len(ops)].file_id = e.file_id
        /\ ops[Len(ops)].batch_id # e.batch_id

\* the ids of the completed move rows of a batch
CompletedMoves(tbl, batchId) ==
  {k \in 1..Len(tbl) : /\ tbl[k].batch_id = batchId
                       /\ tbl[k].operation_type = "move"
                       /\ tbl[k].status = "completed"}

\* the positions of the errors[] items that name the ledger row k
ErrorItems(results, k) == {e \in 1..Len(results.errors) : results.errors[e][1] = k}

\* C26: revertBatch is a best-effort sweep: it attempts every completed move
\* entry of the batch exactly once (each ends up reverted, with one revert
\* entry appended for it, or stays completed with exactly one errors[] item),
\* a failure on one entry does not stop the remaining entries from being
\* reverted, and on return reverted + failed + skipped = totalOperations with
\* exactly one errors[] item per failed entry.
C26_BestEffort ==
  [][\A batchId \in 1..MaxBatches :
       (Idle /\ RevertBatch(batchId) /\ CompletedMoves(ops, batchId) # {})
       => LET S == CompletedMoves(ops, batchId)
              done == {k \in S : ops'[k].status = "reverted"}
          IN /\ rev'.totalOperations = Cardinality(S)
             /\ rev'.reverted + rev'.failed + rev'.skipped = rev'.totalOperations
             /\ rev'.reverted = Cardinality(done)
             /\ Len(ops') = Len(ops) + rev'.reverted
             /\ Len(rev'.errors) = rev'.failed
             /\ \A k \in done : ErrorItems(rev', k) = {}
             /\ \A k \in S \ done :
                  /\ Cardinality(ErrorItems(rev', k)) = 1
                  /\ ops'[k] = ops[k]
             /\ \A e \in 1..Len(rev'.errors) : rev'.errors[e][1] \in S \ done]_vars

\* a batch of two moves whose first attempted entry failed and whose second
\* was reverted all the same
C26_Witness ==
  /\ last.op = "revertBatch"
  /\ rev.totalOperations = 2 /\ rev.failed = 1 /\ rev.reverted = 1
  /\ \E k, j \in BatchOps(rev.batchId) :
       /\ rev.errors[1][1] = k
       /\ ops[k].status = "completed" /\ ops[k].operation_type = "move"
       /\ ops[j].status = "reverted"
       /\ \/ ops[k].created_at > ops[j].created_at
          \/ ops[k].created_at = ops[j].created_at /\ k < j

\* the ids of the move rows of a batch
Moves(tbl, batchId) ==
  {k \in 1..Len(tbl) : tbl[k].batch_id = batchId /\ tbl[k].operation_type = "move"}

\* C27: revertBatch is safely re-runnable: called on a batch whose move
\* entries were all reverted already, it raises no error, counts those
\* entries as skipped and none as failed, and moves no file.
C27_Rerunnable ==
  [][\A batchId \in 1..MaxBatches :
       (/\ Idle /\ RevertBatch(batchId)
        /\ Moves(ops, batchId) # {}
        /\ \A k \in Moves(ops, batchId) : ops[k].status = "reverted")
       => /\ last'.res = "ok"
          /\ rev'.skipped = Cardinality(Moves(ops, batchId))
          /\ rev'.failed = 0
          /\ fs' = fs]_vars

\* the position of the revert row written for the ledger row k
RevertRowOf(tbl, k) ==
  CHOOSE i \in 1..Len(tbl) : tbl[i].operation_type = "revert" /\ tbl[i].batch_id = 0 - k

\* C28: revertBatch reverts the batch's move entries in strict reverse order
\* of their creation: of any two move entries of the batch that it reverts,
\* the one organize appended later is reverted first, also when both carry
\* the same creation timestamp.
C28_ReverseOrder ==
  [][\A batchId \in 1..MaxBatches :
       (Idle /\ RevertBatch(batchId))
       => \A k, j \in CompletedMoves(ops, batchId) :
            (k < j /\ ops'[k].status = "reverted" /\ ops'[j].status = "reverted")
            => RevertRowOf(ops', j) < RevertRowOf(ops', k)]_vars

\* C29: markDuplicates is additive and idempotent: it only ever changes a
\* pending record into a duplicate of another record, never changes a record
\* that is moved or already duplicate, and a second call with no catalog
\* change in between marks zero records and leaves the catalog unchanged.
C29_Additive ==
  [][(Idle /\ MarkDuplicates)
     => /\ Len(files') = Len(files)
        /\ \A i \in 1..Len(files) :
             \/ files'[i] = files[i]
             \/ /\ files[i].status = "pending"
                /\ files'[i].status = "duplicate"
                /\ files'[i].duplicate_of \in (1..Len(files)) \ {i}
                /\ files'[i] = [files[i] EXCEPT !.status = "duplicate",
                                                !.duplicate_of = files'[i].duplicate_of]
        /\ last'.n = Cardinality({i \in 1..Len(files) : files'[i] # files[i]})
        /\ DuplicateMarks(files') = {}
        /\ markDuplicates(files') = files'
        /\ last.op = "markDuplicates" => (last'.n = 0 /\ files' = files)]_vars

\* markDuplicates has marked a pending record as the duplicate of a record
\* that was moved before, and left the moved record as it was
C29_Witness ==
  /\ last.op = "markDuplicates"
  /\ last.n = 1
  /\ \E i, j \in 1..Len(files) :
       /\ files[i].status = "moved"
       /\ files[i].current_path # files[i].original_path
       /\ files[j].status = "duplicate"
       /\ files[j].duplicate_of = i

\* C30: collision resolution always terminates and returns a path that no
\* file occupies at the time it returns, also when the numbered names are
\* exhausted and it falls back to the name with the 8-character fingerprint
\* prefix as suffix: the destination organize records for a move is free
\* when the move is made.
C30_FreePath ==
  [][(/\ OrganizeFile
      /\ Len(ops') > Len(ops)
      /\ ops'[Len(ops')].operation_type = "move")
     => LET file == Head(org.queue)
        IN /\ ops'[Len(ops')].destination_path =
                handleCollision(Computed(file), file.hash_sha256, fs)
           /\ ~fileExists(fs, ops'[Len(ops')].destination_path)]_vars

\* ------------------------------------------------ organizeFile in steps
\* organizeFile awaits fs.mkdir and fs.rename: Node runs other handlers, and
\* other programs change the disk, while the call waits.  Here the call runs
\* in three steps: the checks up to the mkdir, the rename, and what follows
\* the rename.  Between the steps the call's locals destPath and renamed
\* (whether fs.rename has returned) are fields of org.
InFlight == "destPath" \in DOMAIN org

\* the status object without the locals of a call
Bare(o) == [f \in DOMAIN IdleOrg |-> o[f]]

\* organizer.js organizeFile: the row takes the move branch
RealMove(file) ==
  /\ fileExists(fs, file.current_path)
  /\ checkForExistingDuplicate(files, file.hash_sha256, file.id) = NoId
  /\ ~IsDryRun(org)

\* a catch block that gives the run up
OrganizeCatchFatal(file) ==
  /\ errs' = Append(errs, ErrorRow(file.id, file.current_path, "organize_error"))
  /\ ops' = Append(ops, OpRow(ops, org.batchId, file.id, "error", file.current_path,
                              NoPath, file.hash_sha256, "error"))
  /\ org' = [Bare(org) EXCEPT !.queue = <<>>, !.processedFiles = @ + 1,
                              !.errorFiles = @ + 1]

\* organizer.js organizeFile, lines 172-176: the catch block, and the
\* processedFiles++ of the loop
OrganizeCatch(file) ==
  /\ errs' = Append(errs, ErrorRow(file.id, file.current_path, "organize_error"))
  /\ ops' = Append(ops, OpRow(ops, org.batchId, file.id, "error", file.current_path,
                              NoPath, file.hash_sha256, "error"))
  /\ org' = [Bare(org) EXCEPT !.queue = Tail(@), !.processedFiles = @ + 1,
                              !.errorFiles = @ + 1]

\* checks that write the record as moved before the rename has run
MoveChecksEager ==
  /\ org.status = "in_progress"
  /\ org.queue # <<>>
  /\ ~InFlight
  /\ LET file == Head(org.queue)
         destPath == handleCollision(
                       generateDestinationPath(Base, file.resolved_date, file.filename),
                       file.hash_sha256, fs)
     IN IF ~RealMove(file)
        THEN OrganizeFile
        ELSE /\ dirs' = mkdirp(dirs, destPath.dir)
             /\ files' = updateFile(files, [file EXCEPT !.current_path = destPath,
                                                         !.status = "moved",
                                                         !.duplicate_of = NoId])
             /\ org' = [destPath |-> destPath, renamed |-> FALSE] @@ org
             /\ UNCHANGED <<fs, ops, errs, faults>>
             /\ UNCHANGED <<now, nextBatch, scan, rev, rvp, last, ext>>
             /\ UNCHANGED requests

\* organizer.js organizeFile, lines 85-143: a row that is skipped, marked
\* duplicate or dry-run is done in this step; for a row to move, the
\* destination directory is made, or fs.mkdir throws
MoveChecks ==
  /\ org.status = "in_progress"
  /\ org.queue # <<>>
  /\ ~InFlight
  /\ LET file == Head(org.queue)
         destPath == handleCollision(
                       generateDestinationPath(Base, file.resolved_date, file.filename),
                       file.hash_sha256, fs)
     IN IF ~RealMove(file)
        THEN OrganizeFile
        ELSE /\ \E fault \in FaultChoices :
                  IF fault
                  THEN /\ OrganizeCatch(file)
                       /\ faults' = faults - 1
                       /\ UNCHANGED <<fs, dirs, files>>
                  ELSE /\ dirs' = mkdirp(dirs, destPath.dir)
                       /\ org' = [destPath |-> destPath, renamed |-> FALSE] @@ org
                       /\ UNCHANGED <<fs, files, ops, errs, faults>>
             /\ UNCHANGED <<now, nextBatch, scan, rev, rvp, last, ext>>
             /\ UNCHANGED requests

\* organizer.js organizeFile, line 146: fs.rename moves the file, or throws
\* (the source is gone, or another I/O error)
MoveRename ==
  /\ InFlight
  /\ ~org.renamed
  /\ LET file == Head(org.queue)
     IN \E fault \in FaultChoices :
          IF fault \/ ~fileExists(fs, file.current_path)
          THEN /\ OrganizeCatch(file)
               /\ faults' = IF fault THEN faults - 1 ELSE faults
               /\ UNCHANGED <<fs, dirs, files>>
          ELSE /\ fs' = rename(fs, file.current_path, org.destPath)
               /\ org' = [org EXCEPT !.renamed = TRUE]
               /\ UNCHANGED <<dirs, files, ops, errs, faults>>
  /\ UNCHANGED <<now, nextBatch, scan, rev, rvp, last, ext>>
  /\ UNCHANGED requests

\* organizer.js organizeFile, lines 148-170: after fs.rename has returned,
\* the record, the ledger entry and the counters
MoveRecord ==
  /\ InFlight
  /\ org.renamed
  /\ LET file == Head(org.queue)
     IN /\ files' = updateFile(files, [file EXCEPT !.current_path = org.destPath,
                                                    !.status = "moved",
                                                    !.duplicate_of = NoId])
        /\ ops' = Append(ops, OpRow(ops, org.batchId, file.id, "move",
                                    file.current_path, org.destPath,
                                    file.hash_sha256, "File moved successfully"))
        /\ org' = [Bare(org) EXCEPT !.queue = Tail(@), !.processedFiles = @ + 1,
                                    !.movedFiles = @ + 1]
  /\ UNCHANGED <<fs, dirs, errs, faults>>
  /\ UNCHANGED <<now, nextBatch, scan, rev, rvp, last, ext>>
  /\ UNCHANGED requests

\* organize runs in steps, while other programs delete files
NextSteps ==
  \/ \E dryRun \in BOOLEAN, ids \in Selections :
       org.status # "in_progress" /\ OrganizeStart(dryRun, ids)
  \/ MoveChecks
  \/ MoveRename
  \/ MoveRecord
  \/ OrganizeFinish
  \/ \E p \in DOMAIN fs : ExtDelete(p)

InitSteps == InitFaulty(Fixed, TRUE, MaxIoErrors)

SpecSteps == InitSteps /\ [][NextSteps]_vars

\* C31: a record gets status moved, or a new current_path, only in a step of
\* an organize run that starts after fs.rename has returned for that record's
\* file, and the path written is the one the file was renamed to; while a
\* file's rename has not returned, its record is as the run found it.
C31_RecordAfterRename ==
  [][(\A i \in 1..Len(files) :
          ((files'[i].status # files[i].status
              \/ files'[i].current_path # files[i].current_path)
             /\ (files'[i].status = "moved"
                   \/ files'[i].current_path # files[i].current_path))
            => (/\ InFlight
                /\ org.renamed
                /\ Head(org.queue).id = i
                /\ files'[i].status = "moved"
                /\ files'[i].current_path = org.destPath))
      /\ ((InFlight /\ ~org.renamed)
            => (/\ files' = files \/ ext' # ext
                /\ files[Head(org.queue).id].status = "pending"
                /\ files[Head(org.queue).id].current_path
                     = Head(org.queue).current_path
                /\ (fs' # fs /\ ext' = ext)
                     => (/\ fs' = rename(fs, Head(org.queue).current_path,
                                         org.destPath)
                         /\ org'.renamed)))
    ]_vars

\* a record has been written as moved in the step after its file's rename
C31_Witness ==
  /\ org.status = "in_progress"
  /\ ~InFlight
  /\ org.movedFiles > 0
  /\ ~org.dryRun
  /\ \E i \in 1..Len(files), k \in 1..Len(ops) :
       /\ files[i].status = "moved"
       /\ ops[k].file_id = i
       /\ ops[k].batch_id = org.batchId
       /\ ops[k].destination_path = files[i].current_path
       /\ fileExists(fs, files[i].current_path)

\* the step in which fs.mkdir or fs.rename throws for the file at the head
\* of the queue
MoveFails ==
  \/ faults' < faults
  \/ /\ InFlight
     /\ ~org.renamed
     /\ ~fileExists(fs, Head(org.queue).current_path)
     /\ ext' = ext

\* C32: when fs.mkdir or fs.rename fails for a file of an organize run, the
\* file's record stays pending at its old path, the ledger gets one entry of
\* kind error and the errors table one row for the file, errorFiles grows by
\* one, and the run goes on with the rest of its rows; a run that ends is
\* completed and has processed every row.
C32_FailureIsolated ==
  [][(MoveFails
        => LET file == Head(org.queue)
           IN /\ files' = files
              /\ files[file.id].status = "pending"
              /\ files[file.id].current_path = file.current_path
              /\ Len(ops') = Len(ops) + 1
              /\ SubSeq(ops', 1, Len(ops)) = ops
              /\ ops'[Len(ops')].operation_type = "error"
              /\ ops'[Len(ops')].file_id = file.id
              /\ ops'[Len(ops')].batch_id = org.batchId
              /\ Len(errs') = Len(errs) + 1
              /\ SubSeq(errs', 1, Len(errs)) = errs
              /\ errs'[Len(errs')].file_id = file.id
              /\ errs'[Len(errs')].file_path = file.current_path
              /\ org'.errorFiles = org.errorFiles + 1
              /\ org'.status = "in_progress"
              /\ org'.queue = Tail(org.queue)
              /\ fs' = fs)
      /\ ((org.status = "in_progress" /\ org'.status # "in_progress")
            => (/\ org'.status = "completed"
                /\ org'.batchId = org.batchId
                /\ org'.processedFiles = org'.totalFiles
                /\ org'.errorFiles
                     = Cardinality({k \in 1..Len(ops') :
                                      /\ ops'[k].batch_id = org.batchId
                                      /\ ops'[k].operation_type = "error"})))
    ]_vars

\* a run has ended completed after the rename of its first file failed and
\* its second file was moved
C32_Witness ==
  /\ org.status = "completed"
  /\ org.errorFiles = 1
  /\ org.movedFiles = 1
  /\ \E k \in 1..Len(ops) :
       /\ k < Len(ops)
       /\ ops[k].operation_type = "error"
       /\ ops[k].batch_id = org.batchId
       /\ files[ops[k].file_id].status = "pending"
       /\ ops[k + 1].operation_type = "move"
       /\ ops[k + 1].batch_id = org.batchId
       /\ files[ops[k + 1].file_id].status = "moved"

\* ------------------------------------------------ scans with I/O failures
\* scans in which reading a file can fail (extractAllMetadata or
\* calculateHashes throws), while other programs delete files under the walk
NextScanIo ==
  \/ \E root \in ScanRoots : Idle /\ Len(errs) < MaxErrs /\ ScanStart(root)
  \/ ScanDir
  \/ ScanFile
  \/ ScanFinish
  \/ \E p \in DOMAIN fs : ExtDelete(p)

InitScanIo == InitFaulty(ScanLayouts, FALSE, MaxIoErrors)

SpecScanIo == InitScanIo /\ [][NextScanIo]_vars

\* the step in which processFile throws for an uncatalogued file
ProcessFails ==
  /\ ScanFile
  /\ getFileByPath(files, Head(scan.todoFiles)) = {}
  /\ faults' < faults \/ ~fileExists(fs, Head(scan.todoFiles))

\* C33: when processing a file fails during a scan, one error row for the
\* file's path is written, errorFiles grows by one, the catalog gets no
\* record, the walk goes on with the files and directories it still has to
\* visit, and a scan that ends is completed.
C33_FailureIsolated ==
  [][(ProcessFails
        => /\ Len(errs') = Len(errs) + 1
           /\ SubSeq(errs', 1, Len(errs)) = errs
           /\ errs'[Len(errs')].file_path = Head(scan.todoFiles)
           /\ errs'[Len(errs')].error_type = "file_processing"
           /\ scan'.errorFiles = scan.errorFiles + 1
           /\ scan'.processedFiles = scan.processedFiles + 1
           /\ files' = files
           /\ scan'.status = "in_progress"
           /\ scan'.todoFiles = Tail(scan.todoFiles)
           /\ scan'.todoDirs = scan.todoDirs)
      /\ ((scan.status = "in_progress" /\ scan'.status # "in_progress")
            => (/\ scan'.status = "completed"
                /\ scan.todoFiles = <<>>
                /\ scan.todoDirs = <<>>))
    ]_vars

\* a scan has ended completed with one file failed, which has no record, and
\* one file catalogued
C33_Witness ==
  /\ scan.status = "completed"
  /\ scan.errorFiles = 1
  /\ scan.newFiles = 1
  /\ Len(errs) = 1
  /\ errs[1].error_type = "file_processing"
  /\ getFileByPath(files, errs[1].file_path) = {}
  /\ fileExists(fs, errs[1].file_path)
  /\ Len(files) = 1

\* C34: once a cancel request has been accepted (answered 200) and for as
\* long as the flag says cancelled, no running scanDirectory call starts on a
\* further file and no running organizeFiles call processes a further row:
\* no file is moved and no ledger entry is appended by them.
C34_CancelStops ==
  [][/\ activeScan = "cancelled"
          => \A k \in 1..MaxWalks : ~WalkCheck(k)
     /\ activeOrganize = "cancelled"
          => \A k \in 1..MaxRunning : ~BatchFile(k)]_vars

\* C35: the status object an organizeFiles call returns after processing its
\* rows carries the call's own batch id, status completed and the number of
\* rows that call processed (one ledger entry each), and the one a
\* scanDirectory call returns is the one of its own root, whatever other
\* calls ran while it was running.
C35_Reentrant ==
  [][/\ \A k \in 1..MaxRunning :
          (BatchFinish(k) /\ BatchOps(batches[k].batchId) # {})
          => /\ org'.batchId = batches[k].batchId
             /\ org'.dryRun = batches[k].dryRun
             /\ org'.status = "completed"
             /\ org'.processedFiles = Cardinality(BatchOps(batches[k].batchId))
     /\ \A k \in 1..MaxWalks :
          WalkFinish(k)
          => /\ scan'.root = walks[k].root
             /\ scan'.status = "completed"]_vars

\* C36: no step of a dry-run organize changes a record: the catalog has the
\* same records with the same status, duplicate_of and current_path after
\* every step of the run, whatever the other records are.
C36_DryRunCatalog ==
  [][(org.status = "in_progress" /\ org.dryRun)
     => /\ Len(files') = Len(files)
        /\ \A i \in 1..Len(files) :
             /\ files'[i].status = files[i].status
             /\ files'[i].duplicate_of = files[i].duplicate_of
             /\ files'[i].current_path = files[i].current_path]_vars

\* a move entry a dry run wrote
DryRunEntry(row) ==
  row.operation_type = "move" /\ row.reason = "Dry run - would move"

\* C37: in every reachable state a revertOperation call on a ledger entry a
\* dry run wrote fails, and a revertBatch call on a dry-run batch reverts
\* nothing; neither moves a file nor changes a record.
C37_DryRunEntriesInert ==
  [][/\ \A id \in 1..Len(ops) :
          (Idle /\ RevertOperation(id) /\ DryRunEntry(ops[id]))
          => /\ last'.res # "ok"
             /\ fs' = fs
             /\ files' = files
     /\ \A batchId \in 1..MaxBatches :
          (Idle /\ RevertBatch(batchId)
             /\ \E k \in BatchOps(batchId) : DryRunEntry(ops[k]))
          => /\ rev'.reverted = 0
             /\ fs' = fs
             /\ files' = files]_vars

\* C38: a revert call removes only directories that lie strictly beneath the
\* destination base and that hold no file and no directory once removed; the
\* base and the directories above it stay, and no file disappears.
C38_PruneBelowBase ==
  [][(\E id \in 1..Len(ops) : Idle /\ RevertOperation(id))
       \/ (\E batchId \in 1..MaxBatches : Idle /\ RevertBatch(batchId))
     => /\ \A d \in dirs \ dirs' :
             /\ Base \in Prefixes(d)
             /\ d # Base
             /\ FilesIn(fs', d) = {}
             /\ SubDirs(dirs', d) = {}
        /\ Prefixes(Base) \subseteq dirs => Prefixes(Base) \subseteq dirs'
        /\ Cardinality(DOMAIN fs') = Cardinality(DOMAIN fs)]_vars

\* C39: when a revertBatch call directly follows the real organize run of
\* that batch and reverts every move of it without a failure, every record
\* the run processed is as the run found it: pending, with no duplicate_of,
\* at the path the ledger names as the source; and the run's duplicates are
\* among them.
C39_CatalogRestored ==
  [][\A batchId \in 1..MaxBatches :
       (/\ Idle /\ RevertBatch(batchId)
        /\ last.op = "organize" /\ last.batch = batchId /\ ~last.dry
        /\ rev'.status = "completed"
        /\ rev'.failed = 0 /\ rev'.skipped = 0
        /\ rev'.reverted = Cardinality({k \in BatchOps(batchId) :
                                          ops[k].operation_type = "move"}))
       => \A k \in BatchOps(batchId) :
            ops[k].operation_type \in {"move", "duplicate"}
            => /\ files'[ops[k].file_id].status = "pending"
               /\ files'[ops[k].file_id].duplicate_of = NoId
               /\ files'[ops[k].file_id].current_path = ops[k].source_path]_vars
====
